---- MODULE Spec2Model ----
(***************************************************************************)
(* State-machine model of fs/cifs/smb2inode.c: the SMB2 compound-operation *)
(* engine (smb2_compound_op), its public entry points and the symlink /    *)
(* DFS retry logic of smb2_query_path_info and                             *)
(* smb311_posix_query_path_info.                                           *)
(*                                                                         *)
(* External collaborators (the request encoders, compound_send_recv, the   *)
(* allocator, the handle lookup, the cached-directory subsystem) are       *)
(* modelled by their interface: every outcome they can report is a         *)
(* nondeterministic choice.                                                *)
(***************************************************************************)
EXTENDS Integers, Sequences, FiniteSets, TLC

\* ------------------------------------------------------------------------
\* errno values used by the code (returned negated)
\* ------------------------------------------------------------------------
ENOENT == 2
EIO == 5
EAGAIN == 11
ENOMEM == 12
EINVAL == 22
EREMOTE == 66
EREMCHG == 78
EOPNOTSUPP == 95

\* ------------------------------------------------------------------------
\* Bounds of the model
\* ------------------------------------------------------------------------
\* Number of distinct attribute blocks a server response or a cached
\* snapshot may carry (values 1..MaxAttr; 0 is "never written").
MaxAttr == 2

\* Number of threads that run smb2_compound_op concurrently on one
\* connection.
NumOps == 3

Procs == 1..NumOps

AttrVals == 1..MaxAttr

Slots == 0..2

\* ------------------------------------------------------------------------
\* Operation kinds (the "command" argument of smb2_compound_op)
\* ------------------------------------------------------------------------
QueryKinds == {"SMB2_OP_QUERY_INFO", "SMB2_OP_POSIX_QUERY_INFO"}

SetInfoKinds == {"SMB2_OP_RMDIR", "SMB2_OP_SET_EOF", "SMB2_OP_SET_INFO",
                 "SMB2_OP_RENAME", "SMB2_OP_HARDLINK"}

OpenCloseKinds == {"SMB2_OP_DELETE", "SMB2_OP_MKDIR"}

Kinds == QueryKinds \cup SetInfoKinds \cup OpenCloseKinds

\* Any command value the switch does not know falls to "default:".
Commands == Kinds \cup {"INVALID"}

\* The caller's handle argument: NULL, a handle without a resolved symlink
\* target, or a handle with cfile->symlink_target set.
Cfiles == {"NULL", "plain", "symlink"}

BufTypes == {"CIFS_SMALL_BUFFER", "CIFS_LARGE_BUFFER"}

\* Errors an encoder (SMB2_*_init) may report.
EncErrs == {-ENOMEM, -EAGAIN}

\* Errors compound_send_recv may report.
SendErrs == {-EOPNOTSUPP, -EREMCHG, -EREMOTE, -ENOENT}

\* Errors smb2_parse_symlink_response may report.
ParseErrs == {-ENOMEM, -EIO}

\* ------------------------------------------------------------------------
\* Request / response slots (struct smb_rqst rqst[3], struct kvec
\* rsp_iov[3] + int resp_buftype[3] of struct cop_vars)
\* ------------------------------------------------------------------------
NoOparms == [desired_access |-> "none", disposition |-> "none",
             create_options |-> {}, mode |-> "none"]

\* rq_iov : which scratch iov array the slot points at ("NULL" = unset)
\* payload: the request the encoder built in it ("none" = nothing built)
\* fid    : the handle the request names
\* next / related: chaining marks (smb2_set_next_command / smb2_set_related)
\* freed_by: the release routines applied to the slot, in order
EmptyRqst == [rq_iov |-> "NULL", payload |-> "none", info |-> "none",
              nvec |-> "0", fid |-> "none", next |-> FALSE, related |-> FALSE,
              oparms |-> NoOparms, freed_by |-> <<>>]

EmptyRsp == [buftype |-> "CIFS_NO_BUFFER", base |-> 0, Command |-> "none",
             Status |-> "none", fi |-> 0]

NoRqsts == [i \in Slots |-> EmptyRqst]

NoRsps == [i \in Slots |-> EmptyRsp]

\* ------------------------------------------------------------------------
\* Spacemit k1x reset controller (second part of the file): the signal
\* table and the arithmetic of spacemit_reset_set
\* ------------------------------------------------------------------------
\* Width of a register and of the fields of struct spacemit_reset_signal
\* (u32). A u32 is held as the set of the positions of its 1 bits, bit 0
\* being the least significant.
U32Bits == 32

U32All == 0..(U32Bits - 1)

RECURSIVE BitsFrom(_, _)
\* The 1 bits of n, the least significant one being bit i.
BitsFrom(n, i) ==
  IF n = 0 THEN {}
  ELSE (IF n % 2 = 1 THEN {i} ELSE {}) \cup BitsFrom(n \div 2, i + 1)

\* The u32 of a number written in the source.
Bits(n) == BitsFrom(n, 0)

\* a & b
BitAnd(a, b) == a \cap b

\* a | b
BitOr(a, b) == a \cup b

\* ~a
BitNot(a) == U32All \ a

BIT(n) == {n}

\* One entry of the table: { offset, mask, deassert_val, assert_val, type },
\* with the designator that indexes it.
Signal(name, offset, mask, deassert_val, assert_val, type) ==
  [name |-> name, offset |-> offset, mask |-> mask,
   deassert_val |-> deassert_val, assert_val |-> assert_val, type |-> type]

\* Register offsets (bytes from the base of the block) of the registers the
\* signal table names.
APBC_UART1_CLK_RST == 0
APBC_UART2_CLK_RST == 4
APBC_GPIO_CLK_RST == 8
APBC_PWM0_CLK_RST == 12
APBC_PWM1_CLK_RST == 16
APBC_PWM2_CLK_RST == 20
APBC_PWM3_CLK_RST == 24
APBC_PWM4_CLK_RST == 168
APBC_PWM5_CLK_RST == 172
APBC_PWM6_CLK_RST == 176
APBC_PWM7_CLK_RST == 180
APBC_PWM8_CLK_RST == 184
APBC_PWM9_CLK_RST == 188
APBC_PWM10_CLK_RST == 192
APBC_PWM11_CLK_RST == 196
APBC_PWM12_CLK_RST == 200
APBC_PWM13_CLK_RST == 204
APBC_PWM14_CLK_RST == 208
APBC_PWM15_CLK_RST == 212
APBC_PWM16_CLK_RST == 216
APBC_PWM17_CLK_RST == 220
APBC_PWM18_CLK_RST == 224
APBC_PWM19_CLK_RST == 228
APBC_SSP3_CLK_RST == 124
APBC_UART3_CLK_RST == 36
APBC_RTC_CLK_RST == 40
APBC_TWSI0_CLK_RST == 44
APBC_TIMERS1_CLK_RST == 52
APBC_AIB_CLK_RST == 60
APBC_TIMERS2_CLK_RST == 68
APBC_ONEWIRE_CLK_RST == 72
APBC_SSPA0_CLK_RST == 128
APBC_SSPA1_CLK_RST == 132
APBC_DRO_CLK_RST == 88
APBC_IR_CLK_RST == 92
APBC_TWSI1_CLK_RST == 48
APBC_TSEN_CLK_RST == 108
APBC_TWSI2_CLK_RST == 56
APBC_TWSI4_CLK_RST == 64
APBC_TWSI5_CLK_RST == 76
APBC_TWSI6_CLK_RST == 96
APBC_TWSI7_CLK_RST == 104
APBC_TWSI8_CLK_RST == 32
APBC_IPC_AP2AUD_CLK_RST == 144
APBC_UART4_CLK_RST == 112
APBC_UART5_CLK_RST == 116
APBC_UART6_CLK_RST == 120
APBC_UART7_CLK_RST == 148
APBC_UART8_CLK_RST == 152
APBC_UART9_CLK_RST == 156
APBC_CAN0_CLK_RST == 160
MPMU_WDTPCR == 512
APMU_JPG_CLK_RES_CTRL == 32
APMU_CSI_CCIC2_CLK_RES_CTRL == 36
APMU_ISP_CLK_RES_CTRL == 56
APMU_LCD_CLK_RES_CTRL1 == 68
APMU_LCD_SPI_CLK_RES_CTRL == 72
APMU_LCD_CLK_RES_CTRL2 == 76
APMU_CCIC_CLK_RES_CTRL == 80
APMU_SDH0_CLK_RES_CTRL == 84
APMU_SDH1_CLK_RES_CTRL == 88
APMU_USB_CLK_RES_CTRL == 92
APMU_QSPI_CLK_RES_CTRL == 96
APMU_DMA_CLK_RES_CTRL == 100
APMU_AES_CLK_RES_CTRL == 104
APMU_VPU_CLK_RES_CTRL == 164
APMU_GPU_CLK_RES_CTRL == 204
APMU_SDH2_CLK_RES_CTRL == 224
APMU_PMUA_MC_CTRL == 232
APMU_PMUA_EM_CLK_RES_CTRL == 260
APMU_AUDIO_CLK_RES_CTRL == 332
APMU_HDMI_CLK_RES_CTRL == 440
APMU_PCIE_CLK_RES_CTRL_0 == 972
APMU_PCIE_CLK_RES_CTRL_1 == 980
APMU_PCIE_CLK_RES_CTRL_2 == 988
APMU_EMAC0_CLK_RES_CTRL == 996
APMU_EMAC1_CLK_RES_CTRL == 1004
APBC2_UART1_CLK_RST == 0
APBC2_SSP2_CLK_RST == 4
APBC2_TWSI3_CLK_RST == 8
APBC2_RTC_CLK_RST == 12
APBC2_TIMERS0_CLK_RST == 16
APBC2_KPC_CLK_RST == 20
APBC2_GPIO_CLK_RST == 28
RCPU_HDMI_CLK_RST == 8260
RCPU_CAN_CLK_RST == 76
RCPU2_PWM_CLK_RST == 8
RCPU_I2C0_CLK_RST == 48
RCPU_SSP0_CLK_RST == 40
RCPU_IR_CLK_RST == 72
RCPU_UART0_CLK_RST == 216
RCPU_UART1_CLK_RST == 60

\* k1x_reset_signals[RESET_NUMBER]: one entry per reset line, in the order
\* of the table. The identifiers RESET_* are the indices of the entries.
k1x_reset_signals == <<
  Signal("RESET_UART1", APBC_UART1_CLK_RST, BIT(2), Bits(0), BIT(2), "APBC"),
  Signal("RESET_UART2", APBC_UART2_CLK_RST, BIT(2), Bits(0), BIT(2), "APBC"),
  Signal("RESET_GPIO", APBC_GPIO_CLK_RST, BIT(2), Bits(0), BIT(2), "APBC"),
  Signal("RESET_PWM0", APBC_PWM0_CLK_RST, BitOr(BIT(2), BIT(0)), BIT(0), BIT(2), "APBC"),
  Signal("RESET_PWM1", APBC_PWM1_CLK_RST, BitOr(BIT(2), BIT(0)), BIT(0), BIT(2), "APBC"),
  Signal("RESET_PWM2", APBC_PWM2_CLK_RST, BitOr(BIT(2), BIT(0)), BIT(0), BIT(2), "APBC"),
  Signal("RESET_PWM3", APBC_PWM3_CLK_RST, BitOr(BIT(2), BIT(0)), BIT(0), BIT(2), "APBC"),
  Signal("RESET_PWM4", APBC_PWM4_CLK_RST, BitOr(BIT(2), BIT(0)), BIT(0), BIT(2), "APBC"),
  Signal("RESET_PWM5", APBC_PWM5_CLK_RST, BitOr(BIT(2), BIT(0)), BIT(0), BIT(2), "APBC"),
  Signal("RESET_PWM6", APBC_PWM6_CLK_RST, BitOr(BIT(2), BIT(0)), BIT(0), BIT(2), "APBC"),
  Signal("RESET_PWM7", APBC_PWM7_CLK_RST, BitOr(BIT(2), BIT(0)), BIT(0), BIT(2), "APBC"),
  Signal("RESET_PWM8", APBC_PWM8_CLK_RST, BitOr(BIT(2), BIT(0)), BIT(0), BIT(2), "APBC"),
  Signal("RESET_PWM9", APBC_PWM9_CLK_RST, BitOr(BIT(2), BIT(0)), BIT(0), BIT(2), "APBC"),
  Signal("RESET_PWM10", APBC_PWM10_CLK_RST, BitOr(BIT(2), BIT(0)), BIT(0), BIT(2), "APBC"),
  Signal("RESET_PWM11", APBC_PWM11_CLK_RST, BitOr(BIT(2), BIT(0)), BIT(0), BIT(2), "APBC"),
  Signal("RESET_PWM12", APBC_PWM12_CLK_RST, BitOr(BIT(2), BIT(0)), BIT(0), BIT(2), "APBC"),
  Signal("RESET_PWM13", APBC_PWM13_CLK_RST, BitOr(BIT(2), BIT(0)), BIT(0), BIT(2), "APBC"),
  Signal("RESET_PWM14", APBC_PWM14_CLK_RST, BitOr(BIT(2), BIT(0)), BIT(0), BIT(2), "APBC"),
  Signal("RESET_PWM15", APBC_PWM15_CLK_RST, BitOr(BIT(2), BIT(0)), BIT(0), BIT(2), "APBC"),
  Signal("RESET_PWM16", APBC_PWM16_CLK_RST, BitOr(BIT(2), BIT(0)), BIT(0), BIT(2), "APBC"),
  Signal("RESET_PWM17", APBC_PWM17_CLK_RST, BitOr(BIT(2), BIT(0)), BIT(0), BIT(2), "APBC"),
  Signal("RESET_PWM18", APBC_PWM18_CLK_RST, BitOr(BIT(2), BIT(0)), BIT(0), BIT(2), "APBC"),
  Signal("RESET_PWM19", APBC_PWM19_CLK_RST, BitOr(BIT(2), BIT(0)), BIT(0), BIT(2), "APBC"),
  Signal("RESET_SSP3", APBC_SSP3_CLK_RST, BIT(2), Bits(0), BIT(2), "APBC"),
  Signal("RESET_UART3", APBC_UART3_CLK_RST, BIT(2), Bits(0), BIT(2), "APBC"),
  Signal("RESET_RTC", APBC_RTC_CLK_RST, BIT(2), Bits(0), BIT(2), "APBC"),
  Signal("RESET_TWSI0", APBC_TWSI0_CLK_RST, BIT(2), Bits(0), BIT(2), "APBC"),
  Signal("RESET_TIMERS1", APBC_TIMERS1_CLK_RST, BIT(2), Bits(0), BIT(2), "APBC"),
  Signal("RESET_AIB", APBC_AIB_CLK_RST, BIT(2), Bits(0), BIT(2), "APBC"),
  Signal("RESET_TIMERS2", APBC_TIMERS2_CLK_RST, BIT(2), Bits(0), BIT(2), "APBC"),
  Signal("RESET_ONEWIRE", APBC_ONEWIRE_CLK_RST, BIT(2), Bits(0), BIT(2), "APBC"),
  Signal("RESET_SSPA0", APBC_SSPA0_CLK_RST, BIT(2), Bits(0), BIT(2), "APBC"),
  Signal("RESET_SSPA1", APBC_SSPA1_CLK_RST, BIT(2), Bits(0), BIT(2), "APBC"),
  Signal("RESET_DRO", APBC_DRO_CLK_RST, BIT(2), Bits(0), BIT(2), "APBC"),
  Signal("RESET_IR", APBC_IR_CLK_RST, BIT(2), Bits(0), BIT(2), "APBC"),
  Signal("RESET_TWSI1", APBC_TWSI1_CLK_RST, BIT(2), Bits(0), BIT(2), "APBC"),
  Signal("RESET_TSEN", APBC_TSEN_CLK_RST, BIT(2), Bits(0), BIT(2), "APBC"),
  Signal("RESET_TWSI2", APBC_TWSI2_CLK_RST, BIT(2), Bits(0), BIT(2), "APBC"),
  Signal("RESET_TWSI4", APBC_TWSI4_CLK_RST, BIT(2), Bits(0), BIT(2), "APBC"),
  Signal("RESET_TWSI5", APBC_TWSI5_CLK_RST, BIT(2), Bits(0), BIT(2), "APBC"),
  Signal("RESET_TWSI6", APBC_TWSI6_CLK_RST, BIT(2), Bits(0), BIT(2), "APBC"),
  Signal("RESET_TWSI7", APBC_TWSI7_CLK_RST, BIT(2), Bits(0), BIT(2), "APBC"),
  Signal("RESET_TWSI8", APBC_TWSI8_CLK_RST, BIT(2), Bits(0), BIT(2), "APBC"),
  Signal("RESET_IPC_AP2AUD", APBC_IPC_AP2AUD_CLK_RST, BIT(2), Bits(0), BIT(2), "APBC"),
  Signal("RESET_UART4", APBC_UART4_CLK_RST, BIT(2), Bits(0), BIT(2), "APBC"),
  Signal("RESET_UART5", APBC_UART5_CLK_RST, BIT(2), Bits(0), BIT(2), "APBC"),
  Signal("RESET_UART6", APBC_UART6_CLK_RST, BIT(2), Bits(0), BIT(2), "APBC"),
  Signal("RESET_UART7", APBC_UART7_CLK_RST, BIT(2), Bits(0), BIT(2), "APBC"),
  Signal("RESET_UART8", APBC_UART8_CLK_RST, BIT(2), Bits(0), BIT(2), "APBC"),
  Signal("RESET_UART9", APBC_UART9_CLK_RST, BIT(2), Bits(0), BIT(2), "APBC"),
  Signal("RESET_CAN0", APBC_CAN0_CLK_RST, BIT(2), Bits(0), BIT(2), "APBC"),
  Signal("RESET_WDT", MPMU_WDTPCR, BIT(2), Bits(0), BIT(2), "MPMU"),
  Signal("RESET_JPG", APMU_JPG_CLK_RES_CTRL, BIT(0), BIT(0), Bits(0), "APMU"),
  Signal("RESET_CSI", APMU_CSI_CCIC2_CLK_RES_CTRL, BIT(1), BIT(1), Bits(0), "APMU"),
  Signal("RESET_CCIC2_PHY", APMU_CSI_CCIC2_CLK_RES_CTRL, BIT(2), BIT(2), Bits(0), "APMU"),
  Signal("RESET_CCIC3_PHY", APMU_CSI_CCIC2_CLK_RES_CTRL, BIT(29), BIT(29), Bits(0), "APMU"),
  Signal("RESET_ISP", APMU_ISP_CLK_RES_CTRL, BIT(0), BIT(0), Bits(0), "APMU"),
  Signal("RESET_ISP_AHB", APMU_ISP_CLK_RES_CTRL, BIT(3), BIT(3), Bits(0), "APMU"),
  Signal("RESET_ISP_CI", APMU_ISP_CLK_RES_CTRL, BIT(16), BIT(16), Bits(0), "APMU"),
  Signal("RESET_ISP_CPP", APMU_ISP_CLK_RES_CTRL, BIT(27), BIT(27), Bits(0), "APMU"),
  Signal("RESET_LCD", APMU_LCD_CLK_RES_CTRL1, BIT(4), BIT(4), Bits(0), "APMU"),
  Signal("RESET_DSI_ESC", APMU_LCD_CLK_RES_CTRL1, BIT(3), BIT(3), Bits(0), "APMU"),
  Signal("RESET_V2D", APMU_LCD_CLK_RES_CTRL1, BIT(27), BIT(27), Bits(0), "APMU"),
  Signal("RESET_MIPI", APMU_LCD_CLK_RES_CTRL1, BIT(15), BIT(15), Bits(0), "APMU"),
  Signal("RESET_LCD_SPI", APMU_LCD_SPI_CLK_RES_CTRL, BIT(0), BIT(0), Bits(0), "APMU"),
  Signal("RESET_LCD_SPI_BUS", APMU_LCD_SPI_CLK_RES_CTRL, BIT(4), BIT(4), Bits(0), "APMU"),
  Signal("RESET_LCD_SPI_HBUS", APMU_LCD_SPI_CLK_RES_CTRL, BIT(2), BIT(2), Bits(0), "APMU"),
  Signal("RESET_LCD_MCLK", APMU_LCD_CLK_RES_CTRL2, BIT(9), BIT(9), Bits(0), "APMU"),
  Signal("RESET_CCIC_4X", APMU_CCIC_CLK_RES_CTRL, BIT(1), BIT(1), Bits(0), "APMU"),
  Signal("RESET_CCIC1_PHY", APMU_CCIC_CLK_RES_CTRL, BIT(2), BIT(2), Bits(0), "APMU"),
  Signal("RESET_SDH_AXI", APMU_SDH0_CLK_RES_CTRL, BIT(0), BIT(0), Bits(0), "APMU"),
  Signal("RESET_SDH0", APMU_SDH0_CLK_RES_CTRL, BIT(1), BIT(1), Bits(0), "APMU"),
  Signal("RESET_SDH1", APMU_SDH1_CLK_RES_CTRL, BIT(1), BIT(1), Bits(0), "APMU"),
  Signal("RESET_USB_AXI", APMU_USB_CLK_RES_CTRL, BIT(0), BIT(0), Bits(0), "APMU"),
  Signal("RESET_USBP1_AXI", APMU_USB_CLK_RES_CTRL, BIT(4), BIT(4), Bits(0), "APMU"),
  Signal("RESET_USB3_0", APMU_USB_CLK_RES_CTRL, BitOr(BitOr(BIT(9), BIT(10)), BIT(11)), BitOr(BitOr(BIT(9), BIT(10)), BIT(11)), Bits(0), "APMU"),
  Signal("RESET_QSPI", APMU_QSPI_CLK_RES_CTRL, BIT(1), BIT(1), Bits(0), "APMU"),
  Signal("RESET_QSPI_BUS", APMU_QSPI_CLK_RES_CTRL, BIT(0), BIT(0), Bits(0), "APMU"),
  Signal("RESET_DMA", APMU_DMA_CLK_RES_CTRL, BIT(0), BIT(0), Bits(0), "APMU"),
  Signal("RESET_AES", APMU_AES_CLK_RES_CTRL, BIT(4), BIT(4), Bits(0), "APMU"),
  Signal("RESET_VPU", APMU_VPU_CLK_RES_CTRL, BIT(0), BIT(0), Bits(0), "APMU"),
  Signal("RESET_GPU", APMU_GPU_CLK_RES_CTRL, BIT(1), BIT(1), Bits(0), "APMU"),
  Signal("RESET_SDH2", APMU_SDH2_CLK_RES_CTRL, BIT(1), BIT(1), Bits(0), "APMU"),
  Signal("RESET_MC", APMU_PMUA_MC_CTRL, BIT(0), BIT(0), Bits(0), "APMU"),
  Signal("RESET_EM_AXI", APMU_PMUA_EM_CLK_RES_CTRL, BIT(0), BIT(0), Bits(0), "APMU"),
  Signal("RESET_EM", APMU_PMUA_EM_CLK_RES_CTRL, BIT(1), BIT(1), Bits(0), "APMU"),
  Signal("RESET_AUDIO_SYS", APMU_AUDIO_CLK_RES_CTRL, BitOr(BitOr(BIT(0), BIT(2)), BIT(3)), BitOr(BitOr(BIT(0), BIT(2)), BIT(3)), Bits(0), "APMU"),
  Signal("RESET_HDMI", APMU_HDMI_CLK_RES_CTRL, BIT(9), BIT(9), Bits(0), "APMU"),
  Signal("RESET_PCIE0", APMU_PCIE_CLK_RES_CTRL_0, BitOr(BitOr(BitOr(BIT(3), BIT(4)), BIT(5)), BIT(8)), BitOr(BitOr(BIT(3), BIT(4)), BIT(5)), BIT(8), "APMU"),
  Signal("RESET_PCIE1", APMU_PCIE_CLK_RES_CTRL_1, BitOr(BitOr(BitOr(BIT(3), BIT(4)), BIT(5)), BIT(8)), BitOr(BitOr(BIT(3), BIT(4)), BIT(5)), BIT(8), "APMU"),
  Signal("RESET_PCIE2", APMU_PCIE_CLK_RES_CTRL_2, Bits(312), Bits(56), Bits(256), "APMU"),
  Signal("RESET_EMAC0", APMU_EMAC0_CLK_RES_CTRL, BIT(1), BIT(1), Bits(0), "APMU"),
  Signal("RESET_EMAC1", APMU_EMAC1_CLK_RES_CTRL, BIT(1), BIT(1), Bits(0), "APMU"),
  Signal("RESET_SEC_UART1", APBC2_UART1_CLK_RST, BIT(2), Bits(0), BIT(2), "APBC2"),
  Signal("RESET_SEC_SSP2", APBC2_SSP2_CLK_RST, BIT(2), Bits(0), BIT(2), "APBC2"),
  Signal("RESET_SEC_TWSI3", APBC2_TWSI3_CLK_RST, BIT(2), Bits(0), BIT(2), "APBC2"),
  Signal("RESET_SEC_RTC", APBC2_RTC_CLK_RST, BIT(2), Bits(0), BIT(2), "APBC2"),
  Signal("RESET_SEC_TIMERS0", APBC2_TIMERS0_CLK_RST, BIT(2), Bits(0), BIT(2), "APBC2"),
  Signal("RESET_SEC_KPC", APBC2_KPC_CLK_RST, BIT(2), Bits(0), BIT(2), "APBC2"),
  Signal("RESET_SEC_GPIO", APBC2_GPIO_CLK_RST, BIT(2), Bits(0), BIT(2), "APBC2"),
  Signal("RESET_RCPU_HDMIAUDIO", RCPU_HDMI_CLK_RST, BIT(0), BIT(0), Bits(0), "RCPU"),
  Signal("RESET_RCPU_CAN", RCPU_CAN_CLK_RST, BIT(0), BIT(0), Bits(0), "RCPU"),
  Signal("RESET_RCPU2_PWM", RCPU2_PWM_CLK_RST, BitOr(BIT(2), BIT(0)), BIT(0), BIT(2), "RCPU2"),
  Signal("RESET_RCPU_I2C0", RCPU_I2C0_CLK_RST, BIT(0), BIT(0), Bits(0), "RCPU"),
  Signal("RESET_RCPU_SSP0", RCPU_SSP0_CLK_RST, BIT(0), BIT(0), Bits(0), "RCPU"),
  Signal("RESET_RCPU_IR", RCPU_IR_CLK_RST, BIT(0), BIT(0), Bits(0), "RCPU"),
  Signal("RESET_RCPU_UART0", RCPU_UART0_CLK_RST, BIT(0), BIT(0), Bits(0), "RCPU"),
  Signal("RESET_RCPU_UART1", RCPU_UART1_CLK_RST, BIT(0), BIT(0), Bits(0), "RCPU")
>>

\* The identifiers of <dt-bindings/reset/spacemit-k1x-reset.h>: the first
\* one, the size of the table, and the one spacemit_reset_update skips.
RESET_UART1 == 1

RESET_NUMBER == Len(k1x_reset_signals) + 1

RESET_TWSI8 ==
  CHOOSE id \in 1..Len(k1x_reset_signals) :
    k1x_reset_signals[id].name = "RESET_TWSI8"

\* The identifier of a designator.
ResetId(name) ==
  CHOOSE id \in 1..Len(k1x_reset_signals) : k1x_reset_signals[id].name = name

\* The register block spacemit_reset_read / spacemit_reset_write select for
\* a signal: one block per base type, apbc_base for an unknown type.
BaseTypes == {"MPMU", "APMU", "APBC", "APBS", "CIU", "DCIU", "DDRC", "AUDC",
              "APBC2", "RCPU", "RCPU2"}

BaseOf(type) == IF type \in BaseTypes THEN type ELSE "APBC"

\* The register readl / writel address for signal id: base + offset.
RegOf(id) ==
  <<BaseOf(k1x_reset_signals[id].type), k1x_reset_signals[id].offset>>

\* Every register some signal names.
ResetRegs == {RegOf(id) : id \in 1..Len(k1x_reset_signals)}

\* spacemit_reset_set, between the read and the write: the value written
\* for the value read.
spacemit_reset_set_mask_dropped(value, id, assert) ==
  IF assert
    THEN BitOr(value, k1x_reset_signals[id].assert_val)
    ELSE BitOr(value, k1x_reset_signals[id].deassert_val)

spacemit_reset_set(value, id, assert) ==
  IF assert
    THEN BitOr(BitAnd(value, BitNot(k1x_reset_signals[id].mask)),
               k1x_reset_signals[id].assert_val)
    ELSE BitOr(BitAnd(value, BitNot(k1x_reset_signals[id].mask)),
               k1x_reset_signals[id].deassert_val)

\* The range tests of spacemit_reset_update: the identifiers for which it
\* returns before taking the lock.
ResetSkipped(id) ==
  id < RESET_UART1 \/ id >= RESET_NUMBER \/ id = RESET_TWSI8

\* The threads that call the controller's operations, and a thread that is
\* not inside one.
ResetCallers == {1, 2}

ResetCallIdle == [pc |-> "idle", id |-> 0, assert |-> FALSE, value |-> {},
                  ret |-> -1, reads |-> 0, writes |-> 0]

\* The controller before spacemit_reset_init has run: nothing is mapped,
\* the operations are not registered. mapped: the register blocks of the
\* registered controller are mapped; lock_set: its lock field points at the
\* lock; lock: the thread holding the lock (0: free).
RstOff == [probe |-> "none", mapped |-> FALSE, lock_set |-> FALSE,
           boot |-> {}, regs |-> <<>>, lock |-> 0,
           calls |-> [p \in ResetCallers |-> ResetCallIdle]]

\* ------------------------------------------------------------------------
\* State
\* ------------------------------------------------------------------------
VARIABLES
  tcon,    \* the tree connection: [need_reconnect], and [seal]: whether
           \* its session, share or mount options require encryption
  config,  \* build configuration: [dfs_upcall] (CONFIG_CIFS_DFS_UPCALL)
  call,    \* the running public entry point (one logical call)
  op,      \* the running smb2_compound_op frame
  heap,    \* response buffers handed out by the transport: id -> #releases
  wire,    \* the transactions handed to compound_send_recv by this call
  refs,    \* reference counting done by this call: gets and puts
  share,   \* the path the calls address: whether it is the share root "",
           \* its attributes on the server, and the attribute snapshot of
           \* the cached root handle (0: no valid snapshot)
  prev,    \* the result of the previous logical call, where it is recorded
  frames,  \* smb2_compound_op calls running concurrently on the connection,
           \* reduced to what the connection sees of them
  rst      \* the k1x reset controller: its registers, its lock and the
           \* calls of its assert / deassert operations that are running

vars == <<tcon, config, call, op, heap, wire, refs, share, prev, frames, rst>>

OpIdle == [pc |-> "none", command |-> "none", cfile |-> "NULL",
           err_iov |-> FALSE, err_buftype |-> FALSE,
           oparms |-> NoOparms, num_rqst |-> 0, rc |-> 0, flags |-> {},
           rqst |-> NoRqsts, rsp |-> NoRsps,
           vars |-> FALSE, cfile_put |-> 0, cfile_read_after_put |-> FALSE,
           err_in |-> NoRsps, err_written |-> FALSE, sent |-> FALSE,
           ptr |-> 0, cfile_freed |-> FALSE, seen |-> "not read",
           kstrdup |-> "not called", validate |-> "not called"]

\* A concurrent smb2_compound_op call as far as the connection is concerned:
\* where it is, its result code, and whether this thread has ever passed
\* the -EREMCHG branch of "finished:".
FrameIdle == [pc |-> "none", rc |-> 0, marked |-> FALSE]

\* No previous call on record.
NoPrev == [entry |-> "none", rc |-> 0, fi |-> 0]

CallIdle == [entry |-> "none", epc |-> "idle", root |-> FALSE,
             mnt |-> [no_dfs |-> FALSE],
             rc |-> 0, reparse |-> FALSE, symlink_target |-> "NULL",
             fi |-> 0, err |-> NoRsps, ops |-> <<>>, rcs |-> <<>>,
             parse |-> "not called", cfid |-> "none", snapshot |-> 0,
             single_queries |-> 0, attrs_updated |-> FALSE,
             single |-> <<>>, buf |-> -1]

NoRefs == [cfile_get |-> 0, cfile_put |-> 0, cfid_get |-> 0, cfid_put |-> 0,
           tlink_get |-> 0, tlink_put |-> 0]

\* ------------------------------------------------------------------------
\* Pure helpers of smb2_compound_op
\* ------------------------------------------------------------------------

\* free_rsp_buf(buftype, base): releases by provenance tag; a slot tagged
\* CIFS_NO_BUFFER releases nothing.
free_rsp_buf(h, r) ==
  IF r.buftype \in BufTypes /\ r.base \in 1..Len(h)
  THEN [h EXCEPT ![r.base] = @ + 1]
  ELSE h

free_rsp_bufs(h, rs) == free_rsp_buf(free_rsp_buf(free_rsp_buf(h, rs[0]), rs[1]), rs[2])

\* A release routine applied to a request slot: SMB2_open_free,
\* SMB2_query_info_free, SMB2_set_info_free, SMB2_close_free all act only
\* when rq_iov is set.
ReleaseRqst(rq, routine) ==
  IF rq.rq_iov # "NULL" THEN [rq EXCEPT !.freed_by = Append(@, routine)] ELSE rq

\* Variant of free_set_inf_compound that applies the set-info routine to
\* both slots.
free_set_inf_compound_one_routine(rqst) ==
  [rqst EXCEPT ![1] = ReleaseRqst(@, "SMB2_set_info_free"),
               ![2] = ReleaseRqst(@, "SMB2_set_info_free")]

\* free_set_inf_compound(rqst)
free_set_inf_compound(rqst) ==
  [rqst EXCEPT ![1] = ReleaseRqst(@, "SMB2_set_info_free"),
               ![2] = ReleaseRqst(@, "SMB2_close_free")]


\* The frame of a fresh smb2_compound_op call (locals at function entry).
StartOp(command, cfile, err_iov, err_buftype, access, disposition, options, mode) ==
  [OpIdle EXCEPT !.pc = "alloc", !.command = command, !.cfile = cfile,
                 !.err_iov = err_iov, !.err_buftype = err_buftype,
                 !.oparms = [desired_access |-> access, disposition |-> disposition,
                             create_options |-> options, mode |-> mode]]

\* What smb3_encryption_required answers for a connection.
smb3_encryption_required(t) == t.seal

\* kzalloc of the scratch state, the encryption test (enc is what
\* smb3_encryption_required answers for the connection), then the "skip the
\* open" branch.
AfterAlloc(o, ok, enc) ==
  LET f == IF enc THEN {"CIFS_TRANSFORM_REQ"} ELSE {} IN
  IF ~ok THEN [o EXCEPT !.rc = -ENOMEM, !.pc = "returned"]
  ELSE IF o.cfile # "NULL"
       THEN [o EXCEPT !.vars = TRUE, !.flags = f, !.num_rqst = 1, !.rc = 0,
                      !.pc = "operate"]
       ELSE [o EXCEPT !.vars = TRUE, !.flags = f, !.pc = "open"]

\* The Open step: path conversion, oparms, SMB2_open_init,
\* smb2_set_next_command, num_rqst++. The slot records the open parameters
\* with create_options as passed to cifs_create_options (which lives
\* outside this file and may add mount-wide options).
EncodeOpen(o, conv_ok, enc_rc) ==
  IF ~conv_ok THEN [o EXCEPT !.rc = -ENOMEM, !.pc = "finished"]
  ELSE IF enc_rc # 0
       THEN [o EXCEPT !.rqst[0].rq_iov = "open_iov",
                      !.rqst[0].nvec = "SMB2_CREATE_IOV_SIZE",
                      !.rc = enc_rc, !.pc = "finished"]
       ELSE [o EXCEPT !.rqst[0] = [EmptyRqst EXCEPT
                          !.rq_iov = "open_iov", !.nvec = "SMB2_CREATE_IOV_SIZE",
                          !.payload = "open", !.next = TRUE,
                          !.oparms = o.oparms],
                      !.num_rqst = 1, !.rc = 0, !.pc = "operate"]

\* The request each case of the "Operation" switch encodes: the scratch
\* iov it uses, the information class, the handle it names and whether it
\* is chained (smb2_set_next_command + smb2_set_related).
OperateInfo(command) ==
  CASE command = "SMB2_OP_QUERY_INFO" -> "FILE_ALL_INFORMATION"
    [] command = "SMB2_OP_POSIX_QUERY_INFO" -> "SMB_FIND_FILE_POSIX_INFO"
    [] command = "SMB2_OP_RMDIR" -> "FILE_DISPOSITION_INFORMATION"
    [] command = "SMB2_OP_SET_EOF" -> "FILE_END_OF_FILE_INFORMATION"
    [] command = "SMB2_OP_SET_INFO" -> "FILE_BASIC_INFORMATION"
    [] command = "SMB2_OP_RENAME" -> "FILE_RENAME_INFORMATION"
    [] command = "SMB2_OP_HARDLINK" -> "FILE_LINK_INFORMATION"
    [] OTHER -> "none"

\* Cases that test cfile: QUERY_INFO, POSIX_QUERY_INFO, SET_INFO, RENAME.
\* RMDIR, SET_EOF and HARDLINK always encode the placeholder handle.
OperateUsesCfile(command, cfile) ==
  /\ cfile # "NULL"
  /\ command \in QueryKinds \cup {"SMB2_OP_SET_INFO", "SMB2_OP_RENAME"}

OperateFid(command, cfile) ==
  IF OperateUsesCfile(command, cfile) THEN "cfile" ELSE "COMPOUND_FID"

OperateChained(command, cfile) == ~OperateUsesCfile(command, cfile)

OperateRqst(command, cfile) ==
  [EmptyRqst EXCEPT
     !.rq_iov = IF command \in QueryKinds THEN "qi_iov" ELSE "si_iov",
     !.nvec = IF command \in {"SMB2_OP_RENAME", "SMB2_OP_HARDLINK"} THEN "2" ELSE "1",
     !.payload = IF command \in QueryKinds THEN "query_info" ELSE "set_info",
     !.info = OperateInfo(command),
     !.fid = OperateFid(command, cfile),
     !.next = OperateChained(command, cfile),
     !.related = OperateChained(command, cfile)]

\* Where control goes after the switch succeeded: "skip the close" with a
\* caller handle (after_close: num_rqst++), the Close step otherwise.
AfterOperate(o) ==
  IF o.cfile # "NULL"
  THEN [o EXCEPT !.num_rqst = @ + 1, !.pc = "send"]
  ELSE [o EXCEPT !.pc = "close"]

\* Variant of the switch whose default case reports nothing.
EncodeOperateNoDefault(o, enc_rc) ==
  IF o.command \in OpenCloseKinds \/ o.command \notin Kinds THEN AfterOperate(o)
  ELSE IF enc_rc # 0
       THEN [o EXCEPT !.rqst[o.num_rqst].rq_iov = OperateRqst(o.command, o.cfile).rq_iov,
                      !.rqst[o.num_rqst].nvec = OperateRqst(o.command, o.cfile).nvec,
                      !.rc = enc_rc, !.pc = "finished"]
       ELSE AfterOperate([o EXCEPT !.rqst[o.num_rqst] = OperateRqst(o.command, o.cfile),
                                   !.num_rqst = @ + 1])

\* The "Operation" switch.
EncodeOperate(o, enc_rc) ==
  IF o.command \in OpenCloseKinds THEN AfterOperate(o)
  ELSE IF o.command \notin Kinds
       THEN [o EXCEPT !.rc = -EINVAL, !.pc = "finished"]
  ELSE IF enc_rc # 0
       THEN [o EXCEPT !.rqst[o.num_rqst].rq_iov = OperateRqst(o.command, o.cfile).rq_iov,
                      !.rqst[o.num_rqst].nvec = OperateRqst(o.command, o.cfile).nvec,
                      !.rc = enc_rc, !.pc = "finished"]
       ELSE AfterOperate([o EXCEPT !.rqst[o.num_rqst] = OperateRqst(o.command, o.cfile),
                                   !.num_rqst = @ + 1])

\* Variant of the Close step that forgets smb2_set_related.
EncodeCloseUnrelated(o, enc_rc) ==
  LET f == o.flags \cup {"CIFS_CP_CREATE_CLOSE_OP"} IN
  IF enc_rc # 0
  THEN [o EXCEPT !.flags = f, !.rqst[o.num_rqst].rq_iov = "close_iov",
                 !.rqst[o.num_rqst].nvec = "1",
                 !.rc = enc_rc, !.pc = "finished"]
  ELSE [o EXCEPT !.flags = f,
                 !.rqst[o.num_rqst] = [EmptyRqst EXCEPT
                     !.rq_iov = "close_iov", !.nvec = "1", !.payload = "close",
                     !.fid = "COMPOUND_FID"],
                 !.num_rqst = @ + 1, !.rc = 0, !.pc = "send"]

\* Variant of the Close step that does not raise CIFS_CP_CREATE_CLOSE_OP.
EncodeCloseNoFlag(o, enc_rc) ==
  IF enc_rc # 0
  THEN [o EXCEPT !.rqst[o.num_rqst].rq_iov = "close_iov",
                 !.rqst[o.num_rqst].nvec = "1",
                 !.rc = enc_rc, !.pc = "finished"]
  ELSE [o EXCEPT !.rqst[o.num_rqst] = [EmptyRqst EXCEPT
                     !.rq_iov = "close_iov", !.nvec = "1", !.payload = "close",
                     !.fid = "COMPOUND_FID", !.related = TRUE],
                 !.num_rqst = @ + 1, !.rc = 0, !.pc = "send"]

\* The Close step: flag, SMB2_close_init, smb2_set_related, num_rqst++.
EncodeClose(o, enc_rc) ==
  LET f == o.flags \cup {"CIFS_CP_CREATE_CLOSE_OP"} IN
  IF enc_rc # 0
  THEN [o EXCEPT !.flags = f, !.rqst[o.num_rqst].rq_iov = "close_iov",
                 !.rqst[o.num_rqst].nvec = "1",
                 !.rc = enc_rc, !.pc = "finished"]
  ELSE [o EXCEPT !.flags = f,
                 !.rqst[o.num_rqst] = [EmptyRqst EXCEPT
                     !.rq_iov = "close_iov", !.nvec = "1", !.payload = "close",
                     !.fid = "COMPOUND_FID", !.related = TRUE],
                 !.num_rqst = @ + 1, !.rc = 0, !.pc = "send"]

\* The arguments of compound_send_recv: the first request / response slot
\* handed over and the number of requests.
SendFirst(o) == IF o.cfile # "NULL" THEN 1 ELSE 0

\* Variant that hands over num_rqst requests whether or not a handle was
\* passed.
SendCountAll(o) == o.num_rqst

SendCount(o) == IF o.cfile # "NULL" THEN o.num_rqst - 2 ELSE o.num_rqst

SentSlots(o) == {i \in Slots : SendFirst(o) <= i /\ i < SendFirst(o) + SendCount(o)}


\* ------------------------------------------------------------------------
\* The transport (compound_send_recv), by its interface
\* ------------------------------------------------------------------------
RspCommand(payload) ==
  CASE payload = "open" -> "SMB2_CREATE"
    [] payload = "query_info" -> "SMB2_QUERY_INFO"
    [] payload = "set_info" -> "SMB2_SET_INFO"
    [] payload = "close" -> "SMB2_CLOSE"
    [] OTHER -> "none"

\* The provenance tag of a response buffer: a query-info response, with
\* its large output buffer, is held in a large buffer, every other
\* response in a small one.
RspBufType(payload) ==
  IF payload = "query_info" THEN "CIFS_LARGE_BUFFER" ELSE "CIFS_SMALL_BUFFER"

\* The headers a failed Open response may declare, as far as the callers
\* tell them apart: the command (creation or not) and the status.
OpenFailureHeaders ==
  {[Command |-> "SMB2_CREATE", Status |-> "STATUS_STOPPED_ON_SYMLINK"],
   [Command |-> "SMB2_CREATE", Status |-> "STATUS_OBJECT_NAME_INVALID"],
   [Command |-> "SMB2_CREATE", Status |-> "STATUS_OTHER"],
   [Command |-> "SMB2_OTHER", Status |-> "STATUS_STOPPED_ON_SYMLINK"]}

\* The responses the transport may store for one request. On success every
\* request has a response buffer; a query-info response carries the
\* attributes the path has on the server. On failure a request may have no
\* buffer at all.
SlotResponses(rq, ok) ==
  IF ok
  THEN {[buftype |-> RspBufType(rq.payload), base |-> 0,
         Command |-> RspCommand(rq.payload),
         Status |-> "STATUS_SUCCESS", fi |-> f] :
          f \in IF rq.payload = "query_info" THEN {share.fi} ELSE {0}}
  ELSE {EmptyRsp} \cup
       {[buftype |-> RspBufType(rq.payload), base |-> 0, Command |-> h.Command,
         Status |-> h.Status, fi |-> 0] :
          h \in IF rq.payload = "open" THEN OpenFailureHeaders
                ELSE {[Command |-> RspCommand(rq.payload), Status |-> "STATUS_OTHER"]}}

\* The responses for slot i of a transaction: slots the transport was not
\* handed stay untouched.
SentResponses(o, i, ok) ==
  IF i \in SentSlots(o) THEN SlotResponses(o.rqst[i], ok) ELSE {EmptyRsp}

\* Every response array the transport may leave behind.
TransportResponses(o, ok) ==
  {[i \in Slots |-> IF i = 0 THEN r0 ELSE IF i = 1 THEN r1 ELSE r2] :
     r0 \in SentResponses(o, 0, ok),
     r1 \in SentResponses(o, 1, ok),
     r2 \in SentResponses(o, 2, ok)}

\* Number the buffers of a response array with fresh heap ids.
RECURSIVE Place(_, _, _)
Place(r, i, next) ==
  IF i > 2 THEN r
  ELSE IF r[i].buftype \in BufTypes
       THEN Place([r EXCEPT ![i].base = next], i + 1, next + 1)
       ELSE Place(r, i + 1, next)

NumBuffers(r) == Cardinality({i \in Slots : r[i].buftype \in BufTypes})

\* The share after a transaction: a successful SetInfo carrying an
\* attribute block replaces the path's attributes on the server. Nothing in
\* smb2_compound_op touches the cached root handle's snapshot.
ShareAfter(o, rc) ==
  IF rc = 0 /\ o.command = "SMB2_OP_SET_INFO" /\ o.ptr # 0
  THEN [share EXCEPT !.fi = o.ptr]
  ELSE share

\* The record of one transaction as the transport saw it, with the result
\* code it answered.
WireEntry(o, rc) ==
  [first |-> SendFirst(o), count |-> SendCount(o), flags |-> o.flags, rc |-> rc,
   reqs |-> [i \in Slots |-> IF i \in SentSlots(o) THEN o.rqst[i] ELSE EmptyRqst]]

\* ------------------------------------------------------------------------
\* smb2_compound_op after the transport: "finished:" and below
\* ------------------------------------------------------------------------

\* cifsFileInfo_put(cfile) if a handle was passed, then SMB2_open_free.
\* The put drops the reference the caller's lookup took; when that was the
\* last reference (the file was closed meanwhile) the handle object is
\* freed by it. Whether it was is tracked where the function goes on to
\* read the handle (ReadsSymlinkTarget) and nowhere else.
Finished(o, last_ref) ==
  [o EXCEPT !.cfile_put = IF o.cfile # "NULL" THEN @ + 1 ELSE @,
            !.cfile_freed = (o.cfile # "NULL" /\ last_ref),
            !.rqst[0] = ReleaseRqst(@, "SMB2_open_free"),
            !.pc = "interpret"]

\* Variant that stores the outcome of the test, clearing the flag when the
\* result is anything but -EREMCHG.
NeedReconnectLastResult(need, rc) == rc = -EREMCHG

\* Variant that tests for -EREMOTE instead of -EREMCHG.
NeedReconnectOnRemote(need, rc) == IF rc = -EREMOTE THEN TRUE ELSE need

\* tcon->need_reconnect after the -EREMCHG test.
NeedReconnect(need, rc) == IF rc = -EREMCHG THEN TRUE ELSE need

\* The query cases test "rc == 0 && cfile && cfile->symlink_target": with a
\* handle and a successful transaction the handle's field is read.
ReadsSymlinkTarget(o) == o.command \in QueryKinds /\ o.rc = 0 /\ o.cfile # "NULL"

\* What that read may yield. The read comes after cifsFileInfo_put: on a
\* handle that is still referenced it yields the handle's field; on a handle
\* the put has freed it reads released memory, which may still hold the old
\* value, may have been cleared, or may hold something else.
SymlinkTargetRead(o) ==
  IF o.cfile_freed
  THEN (IF o.cfile = "symlink" THEN {"cfile"} ELSE {}) \cup {"NULL", "garbage"}
  ELSE {IF o.cfile = "symlink" THEN "cfile" ELSE "NULL"}

\* The result code after the symlink-target copy of the query cases: seen
\* is what the read yielded, kstrdup is called when it is not NULL.
RcAfterStrdup(o, seen, kstrdup_ok) ==
  IF ReadsSymlinkTarget(o) /\ seen # "NULL" /\ ~kstrdup_ok THEN -ENOMEM ELSE o.rc

\* Variant that drops the result of smb2_validate_and_copy_iov.
RcAfterValidateIgnored(rc, validate_rc) == rc

\* The result code after smb2_validate_and_copy_iov of the query cases.
RcAfterValidate(rc, validate_rc) == IF rc = 0 THEN validate_rc ELSE rc

\* The post-processing switch: result extraction for the query kinds and
\* the release of the operate / close request state.
Interpret(o, data, seen, kstrdup_ok, validate_rc) ==
  IF o.command \in QueryKinds
  THEN LET copies == ReadsSymlinkTarget(o) /\ seen # "NULL"
           rc1 == RcAfterStrdup(o, seen, kstrdup_ok)
           rc2 == RcAfterValidate(rc1, validate_rc)
       IN [op |-> [o EXCEPT
                     !.rc = rc2,
                     !.cfile_read_after_put =
                        @ \/ (ReadsSymlinkTarget(o) /\ o.cfile_put > 0),
                     !.seen = IF ReadsSymlinkTarget(o) THEN seen ELSE @,
                     !.kstrdup = IF ~copies THEN @
                                 ELSE IF kstrdup_ok THEN "ok" ELSE "failed",
                     !.validate = IF rc1 # 0 THEN @
                                  ELSE IF validate_rc = 0 THEN "ok" ELSE "failed",
                     !.rqst[1] = ReleaseRqst(@, "SMB2_query_info_free"),
                     !.rqst[2] = ReleaseRqst(@, "SMB2_close_free"),
                     !.pc = "release"],
           symlink_target |->
              IF copies
              THEN (IF kstrdup_ok THEN seen ELSE "NULL")
              ELSE data.symlink_target,
           fi |-> IF rc1 = 0 /\ validate_rc = 0 THEN o.rsp[1].fi ELSE data.fi]
  ELSE [op |-> [o EXCEPT
                  !.rqst = IF o.command \in OpenCloseKinds
                           THEN [o.rqst EXCEPT ![1] = ReleaseRqst(@, "SMB2_close_free")]
                           ELSE IF o.command \in SetInfoKinds
                                THEN free_set_inf_compound(o.rqst)
                                ELSE o.rqst,
                  !.pc = "release"],
        symlink_target |-> data.symlink_target,
        fi |-> data.fi]

\* Variant of the hand-over test that does not look at err_buftype.
HandsOverWithoutTags(o) == o.rc # 0 /\ o.err_iov

\* Whether the final block hands the response buffers to the caller.
HandsOver(o) == o.rc # 0 /\ o.err_iov /\ o.err_buftype

\* The caller's diagnostics arrays after the final block.
ErrAfter(o, err) == IF HandsOver(o) THEN o.rsp ELSE err

\* Variant of the final block that releases the buffers even when it has
\* handed them to the caller.
HeapAfterAlwaysFree(o, h) == free_rsp_bufs(h, o.rsp)

\* The heap after the final block.
HeapAfter(o, h) == IF HandsOver(o) THEN h ELSE free_rsp_bufs(h, o.rsp)


\* ------------------------------------------------------------------------
\* Pure helpers of the entry points
\* ------------------------------------------------------------------------
\* The mount flags the entry points read (CIFS_MOUNT_NO_DFS).
Mnts == [no_dfs : BOOLEAN]

\* Entry points that read no mount flag.
AnyMnt == [no_dfs |-> FALSE]

\* The frame of a fresh public call.
Begin(entry, root, mnt) ==
  [CallIdle EXCEPT !.entry = entry, !.epc = "first", !.root = root, !.mnt = mnt]

\* Calling smb2_compound_op from an entry point: the arguments are logged.
Invoke(c, o) ==
  [c EXCEPT !.ops = Append(@, [command |-> o.command, cfile |-> o.cfile,
                               diag |-> o.err_iov /\ o.err_buftype,
                               oparms |-> o.oparms])]

\* The cached-root shortcut of smb2_query_path_info once open_cached_dir
\* succeeded: the snapshot if valid, one SMB2_query_info otherwise.
\* Variant of the shortcut that queries the server even when the snapshot
\* is valid.
CachedShortcutAlwaysQueries(valid, snap, qrc, qfi) ==
  [rc |-> qrc, fi |-> IF qrc = 0 THEN qfi ELSE 0, single_queries |-> 1,
   closes |-> 1]

\* Variant of the shortcut that returns a failed query's error without
\* closing the cached handle.
CachedShortcutLeaksOnError(valid, snap, qrc, qfi) ==
  IF valid THEN [rc |-> 0, fi |-> snap, single_queries |-> 0, closes |-> 1]
  ELSE [rc |-> qrc, fi |-> IF qrc = 0 THEN qfi ELSE 0, single_queries |-> 1,
        closes |-> IF qrc = 0 THEN 1 ELSE 0]

\* Variant of the shortcut that reports success when the single query
\* failed.
CachedShortcutSwallowsError(valid, snap, qrc, qfi) ==
  IF valid THEN [rc |-> 0, fi |-> snap, single_queries |-> 0, closes |-> 1]
  ELSE [rc |-> 0, fi |-> IF qrc = 0 THEN qfi ELSE 0, single_queries |-> 1,
        closes |-> 1]

\* close_cached_dir is called once on both branches.
CachedShortcut(valid, snap, qrc, qfi) ==
  IF valid THEN [rc |-> 0, fi |-> snap, single_queries |-> 0, closes |-> 1]
  ELSE [rc |-> qrc, fi |-> IF qrc = 0 THEN qfi ELSE 0, single_queries |-> 1,
        closes |-> 1]

\* Variant of the early exit that looks at response slot 1.
NoHeaderInSlot1(err) == err[1].base = 0 \/ err[1].buftype = "CIFS_NO_BUFFER"

\* smb2_query_path_info: the early exit when response slot 0 holds nothing.
NoHeader(err) == err[0].base = 0 \/ err[0].buftype = "CIFS_NO_BUFFER"

\* Variant of the symlink test that does not look at the declared command.
IsSymlinkFailureAnyCommand(rc, hdr) ==
  /\ rc = -EOPNOTSUPP
  /\ hdr.Status = "STATUS_STOPPED_ON_SYMLINK"

\* smb2_query_path_info: the symlink test on the first failure.
IsSymlinkFailure(rc, hdr) ==
  /\ rc = -EOPNOTSUPP
  /\ hdr.Command = "SMB2_CREATE"
  /\ hdr.Status = "STATUS_STOPPED_ON_SYMLINK"

\* Variant of the remappings whose first step does not depend on the
\* build configuration.
DfsRemapUnconfigured(rc, hdr, dfs_upcall, no_dfs) ==
  LET rc1 == IF rc # -EREMOTE /\ hdr.Status = "STATUS_OBJECT_NAME_INVALID"
             THEN -EREMOTE ELSE rc
  IN IF rc1 = -EREMOTE /\ dfs_upcall /\ no_dfs THEN -EOPNOTSUPP ELSE rc1

\* Variant of the remappings whose second step does not read the mount
\* flag.
DfsRemapAnyMount(rc, hdr, dfs_upcall, no_dfs) ==
  LET rc1 == IF rc # -EREMOTE /\ dfs_upcall /\ hdr.Status = "STATUS_OBJECT_NAME_INVALID"
             THEN -EREMOTE ELSE rc
  IN IF rc1 = -EREMOTE /\ dfs_upcall THEN -EOPNOTSUPP ELSE rc1

\* smb2_query_path_info: the two DFS remappings of a first failure that is
\* not a symlink failure.
DfsRemap(rc, hdr, dfs_upcall, no_dfs) ==
  LET rc1 == IF rc # -EREMOTE /\ dfs_upcall /\ hdr.Status = "STATUS_OBJECT_NAME_INVALID"
             THEN -EREMOTE ELSE rc
  IN IF rc1 = -EREMOTE /\ dfs_upcall /\ no_dfs THEN -EOPNOTSUPP ELSE rc1

\* smb2_query_path_info: does the first result lead to the retry test?
QueryTakesSymlinkBranch(rc, err) ==
  rc # 0 /\ ~NoHeader(err) /\ IsSymlinkFailure(rc, err[0])

\* smb2_query_path_info: the result code when no retry is made.
QueryFinalRc(rc, err, dfs_upcall, no_dfs) ==
  IF rc = 0 \/ NoHeader(err) THEN rc
  ELSE DfsRemap(rc, err[0], dfs_upcall, no_dfs)

\* smb311_posix_query_path_info: the symlink test guarding the parse.
PosixParses(rc, err) ==
  /\ rc = -EOPNOTSUPP
  /\ err[0].base # 0 /\ err[0].buftype # "CIFS_NO_BUFFER"
  /\ err[0].Command = "SMB2_CREATE"
  /\ err[0].Status = "STATUS_STOPPED_ON_SYMLINK"

\* Variant of the retry that passes the diagnostics outputs again.
RetryOpWithDiag(command, cfile, options) ==
  StartOp(command, cfile, TRUE, TRUE, "FILE_READ_ATTRIBUTES", "FILE_OPEN",
          options \cup {"OPEN_REPARSE_POINT"}, "ACL_NO_MODE")

\* Variant of the retry that repeats the first call's creation options.
RetryOpSameOptions(command, cfile, options) ==
  StartOp(command, cfile, FALSE, FALSE, "FILE_READ_ATTRIBUTES", "FILE_OPEN",
          options, "ACL_NO_MODE")

\* The retry both query entry points issue: same access and disposition,
\* the reparse-point option added, no diagnostics outputs.
RetryOp(command, cfile, options) ==
  StartOp(command, cfile, FALSE, FALSE, "FILE_READ_ATTRIBUTES", "FILE_OPEN",
          options \cup {"OPEN_REPARSE_POINT"}, "ACL_NO_MODE")

\* A handle lookup (cifs_get_readable_path / cifs_get_writable_path) takes
\* a reference when it finds a handle.
Lookup(r, cfile) == IF cfile # "NULL" THEN [r EXCEPT !.cfile_get = @ + 1] ELSE r


\* ------------------------------------------------------------------------
\* Initial state: a mounted share, no call running. Which attribute block
\* the path starts with is immaterial (smb2_set_file_info replaces it by any
\* other); the last one is taken, and the cached root handle has either no
\* valid snapshot or a snapshot of that block.
\* ------------------------------------------------------------------------
Init ==
  /\ tcon \in [need_reconnect : {FALSE}, seal : BOOLEAN]
  /\ config \in [dfs_upcall : BOOLEAN]
  /\ call = CallIdle
  /\ op = OpIdle
  /\ heap = <<>>
  /\ wire = <<>>
  /\ refs = NoRefs
  /\ share \in {[root |-> r, fi |-> MaxAttr, snapshot |-> c] :
                   r \in BOOLEAN, c \in {0, MaxAttr}}
  /\ share.snapshot \in IF share.root THEN {0, share.fi} ELSE {0}
  /\ prev = NoPrev
  /\ frames = [p \in Procs |-> FrameIdle]
  /\ rst = RstOff

Idle == call.epc = "idle"

Returned(entry, epc) ==
  call.entry = entry /\ call.epc = epc /\ op.pc = "returned"

\* ------------------------------------------------------------------------
\* smb2_compound_op, step by step
\* ------------------------------------------------------------------------
OpAlloc ==
  /\ op.pc = "alloc"
  /\ \E ok \in BOOLEAN :
        op' = AfterAlloc(op, ok, smb3_encryption_required(tcon))
  /\ UNCHANGED <<tcon, config, call, heap, wire, refs, share, prev, frames, rst>>

OpOpen ==
  /\ op.pc = "open"
  /\ \E conv_ok \in BOOLEAN, enc_rc \in {0} \cup EncErrs :
        op' = EncodeOpen(op, conv_ok, enc_rc)
  /\ UNCHANGED <<tcon, config, call, heap, wire, refs, share, prev, frames, rst>>

OpOperate ==
  /\ op.pc = "operate"
  /\ \E enc_rc \in {0} \cup EncErrs : op' = EncodeOperate(op, enc_rc)
  /\ UNCHANGED <<tcon, config, call, heap, wire, refs, share, prev, frames, rst>>

OpClose ==
  /\ op.pc = "close"
  /\ \E enc_rc \in {0} \cup EncErrs : op' = EncodeClose(op, enc_rc)
  /\ UNCHANGED <<tcon, config, call, heap, wire, refs, share, prev, frames, rst>>

OpSend ==
  /\ op.pc = "send"
  /\ \E rc \in {0} \cup SendErrs :
       \E r \in TransportResponses(op, rc = 0) :
          /\ op' = [op EXCEPT !.rc = rc, !.rsp = Place(r, 0, Len(heap) + 1),
                              !.sent = TRUE, !.pc = "finished"]
          /\ heap' = heap \o [i \in 1..NumBuffers(r) |-> 0]
          /\ wire' = Append(wire, WireEntry(op, rc))
          /\ share' = ShareAfter(op, rc)
  /\ UNCHANGED <<tcon, config, call, refs, prev, frames, rst>>

OpFinished ==
  /\ op.pc = "finished"
  /\ \E last_ref \in IF ReadsSymlinkTarget(op) THEN BOOLEAN ELSE {FALSE} :
        /\ op' = Finished(op, last_ref)
        /\ refs' = [refs EXCEPT
                      !.cfile_put = @ + (Finished(op, last_ref).cfile_put - op.cfile_put)]
  /\ tcon' = [tcon EXCEPT !.need_reconnect = NeedReconnect(@, op.rc)]
  /\ UNCHANGED <<config, call, heap, wire, share, prev, frames, rst>>

OpInterpret ==
  /\ op.pc = "interpret"
  /\ \E seen \in IF ReadsSymlinkTarget(op) THEN SymlinkTargetRead(op) ELSE {"NULL"} :
     \E kstrdup_ok \in IF ReadsSymlinkTarget(op) /\ seen # "NULL"
                        THEN BOOLEAN ELSE {TRUE},
        validate_rc \in IF op.command \in QueryKinds /\ op.rc = 0
                        THEN {0, -EINVAL} ELSE {0} :
        LET r == Interpret(op, call, seen, kstrdup_ok, validate_rc) IN
          /\ op' = r.op
          /\ call' = [call EXCEPT !.symlink_target = r.symlink_target, !.fi = r.fi]
  /\ UNCHANGED <<tcon, config, heap, wire, refs, share, prev, frames, rst>>

OpRelease ==
  /\ op.pc = "release"
  /\ op' = [op EXCEPT !.err_written = HandsOver(op), !.pc = "returned"]
  /\ call' = [call EXCEPT !.err = ErrAfter(op, @)]
  /\ heap' = HeapAfter(op, heap)
  /\ UNCHANGED <<tcon, config, wire, refs, share, prev, frames, rst>>

\* ------------------------------------------------------------------------
\* smb2_query_path_info
\* ------------------------------------------------------------------------

\* The empty path with open_cached_dir succeeding. With a valid snapshot
\* the function copies it, closes the cached handle and returns; without
\* one it enters SMB2_query_info, holding the cached handle while it waits
\* for the server.
QueryPathInfoCached ==
  /\ Idle
  /\ share.root
  /\ \E mnt \in Mnts, valid \in {share.snapshot # 0} :
       \E snap \in {share.snapshot} :
         IF valid
         THEN LET r == CachedShortcut(TRUE, snap, 0, 0) IN
                /\ call' = [Begin("smb2_query_path_info", TRUE, mnt) EXCEPT
                             !.epc = "done", !.rc = r.rc, !.fi = r.fi,
                             !.cfid = "valid", !.snapshot = snap,
                             !.single_queries = r.single_queries,
                             !.single = IF r.single_queries = 0 THEN <<>>
                                        ELSE <<[fid |-> "cfid", rc |-> r.rc]>>]
                /\ refs' = [refs EXCEPT !.cfid_get = @ + 1,
                                        !.cfid_put = @ + r.closes]
         ELSE /\ call' = [Begin("smb2_query_path_info", TRUE, mnt) EXCEPT
                             !.epc = "cached_query", !.cfid = "stale",
                             !.snapshot = snap]
              /\ refs' = [refs EXCEPT !.cfid_get = @ + 1]
  /\ UNCHANGED <<tcon, config, op, heap, wire, share, prev, frames, rst>>

\* SMB2_query_info on the cached handle answers; close_cached_dir; return.
QueryPathInfoCachedQuery ==
  /\ call.entry = "smb2_query_path_info" /\ call.epc = "cached_query"
  /\ \E qrc \in {0, -EIO} :
       \E qfi \in IF qrc = 0 THEN {share.fi} ELSE {0} :
         LET r == CachedShortcut(FALSE, call.snapshot, qrc, qfi) IN
           /\ call' = [call EXCEPT
                        !.epc = "done", !.rc = r.rc, !.fi = r.fi,
                        !.single_queries = r.single_queries,
                        !.single = IF r.single_queries = 0 THEN <<>>
                                   ELSE <<[fid |-> "cfid", rc |-> qrc]>>]
           /\ refs' = [refs EXCEPT !.cfid_put = @ + r.closes]
  /\ UNCHANGED <<tcon, config, op, heap, wire, share, prev, frames, rst>>

\* A non-empty path, or open_cached_dir failing: the handle lookup and the
\* first smb2_compound_op call, with diagnostics outputs.
QueryPathInfoCompound ==
  /\ Idle
  /\ \E mnt \in Mnts, root \in {share.root}, cfile \in Cfiles :
        LET o == StartOp("SMB2_OP_QUERY_INFO", cfile, TRUE, TRUE,
                         "FILE_READ_ATTRIBUTES", "FILE_OPEN", {}, "ACL_NO_MODE") IN
          /\ op' = o
          /\ call' = Invoke(Begin("smb2_query_path_info", root, mnt), o)
          /\ refs' = Lookup(refs, cfile)
  /\ UNCHANGED <<tcon, config, heap, wire, share, prev, frames, rst>>

\* The first call returned and leads to the retry: parse succeeded.
QueryPathInfoRetry ==
  /\ Returned("smb2_query_path_info", "first")
  /\ QueryTakesSymlinkBranch(op.rc, call.err)
  /\ \E cfile \in Cfiles :
        LET o == RetryOp("SMB2_OP_QUERY_INFO", cfile, {}) IN
          /\ op' = [o EXCEPT !.err_in = call.err]
          /\ call' = Invoke([call EXCEPT !.epc = "retry", !.reparse = TRUE,
                                         !.symlink_target = "parsed",
                                         !.parse = "ok",
                                         !.rcs = Append(@, op.rc)], o)
          /\ refs' = Lookup(refs, cfile)
  /\ UNCHANGED <<tcon, config, heap, wire, share, prev, frames, rst>>

\* The first call returned and the function ends ("out:"): success, no
\* header, a failed parse, or a failure after the DFS remappings.
QueryPathInfoOut ==
  /\ Returned("smb2_query_path_info", "first")
  /\ \E prc \in ParseErrs :
        call' = [call EXCEPT
                   !.epc = "done",
                   !.rc = IF QueryTakesSymlinkBranch(op.rc, call.err) THEN prc
                          ELSE QueryFinalRc(op.rc, call.err, config.dfs_upcall,
                                            call.mnt.no_dfs),
                   !.parse = IF QueryTakesSymlinkBranch(op.rc, call.err)
                             THEN "failed" ELSE @,
                   !.rcs = Append(@, op.rc)]
  /\ heap' = free_rsp_bufs(heap, call.err)
  /\ UNCHANGED <<tcon, config, op, wire, refs, share, prev, frames, rst>>

\* The retry returned: "goto out".
QueryPathInfoAfterRetry ==
  /\ Returned("smb2_query_path_info", "retry")
  /\ call' = [call EXCEPT !.epc = "done", !.rc = op.rc, !.rcs = Append(@, op.rc)]
  /\ heap' = free_rsp_bufs(heap, call.err)
  /\ UNCHANGED <<tcon, config, op, wire, refs, share, prev, frames, rst>>

\* ------------------------------------------------------------------------
\* smb311_posix_query_path_info
\* ------------------------------------------------------------------------
PosixQueryPathInfo ==
  /\ Idle
  /\ \E mnt \in {AnyMnt}, root \in {share.root}, cfile \in Cfiles :
        LET o == StartOp("SMB2_OP_POSIX_QUERY_INFO", cfile, TRUE, TRUE,
                         "FILE_READ_ATTRIBUTES", "FILE_OPEN", {}, "ACL_NO_MODE") IN
          /\ op' = o
          /\ call' = Invoke(Begin("smb311_posix_query_path_info", root, mnt), o)
          /\ refs' = Lookup(refs, cfile)
  /\ UNCHANGED <<tcon, config, heap, wire, share, prev, frames, rst>>

\* First result -EOPNOTSUPP, and the parse (if the symlink test asks for
\* one) succeeded: reparse is set and the retry is issued.
PosixQueryPathInfoRetry ==
  /\ Returned("smb311_posix_query_path_info", "first")
  /\ op.rc = -EOPNOTSUPP
  /\ \E cfile \in Cfiles :
        LET o == RetryOp("SMB2_OP_POSIX_QUERY_INFO", cfile, {}) IN
          /\ op' = [o EXCEPT !.err_in = call.err]
          /\ call' = Invoke([call EXCEPT
                               !.epc = "retry", !.reparse = TRUE,
                               !.symlink_target =
                                  IF PosixParses(op.rc, call.err) THEN "parsed" ELSE @,
                               !.parse = IF PosixParses(op.rc, call.err) THEN "ok" ELSE @,
                               !.rcs = Append(@, op.rc)], o)
          /\ refs' = Lookup(refs, cfile)
  /\ UNCHANGED <<tcon, config, heap, wire, share, prev, frames, rst>>

\* Variant of the exit below that sets reparse before leaving on a failed
\* parse.
PosixQueryPathInfoOutSetsReparse ==
  /\ Returned("smb311_posix_query_path_info", "first")
  /\ op.rc = -EOPNOTSUPP => PosixParses(op.rc, call.err)
  /\ \E prc \in ParseErrs :
        call' = [call EXCEPT
                   !.epc = "done",
                   !.rc = IF op.rc = -EOPNOTSUPP THEN prc ELSE op.rc,
                   !.reparse = (op.rc = -EOPNOTSUPP),
                   !.parse = IF op.rc = -EOPNOTSUPP THEN "failed" ELSE @,
                   !.rcs = Append(@, op.rc)]
  /\ heap' = free_rsp_bufs(heap, call.err)
  /\ UNCHANGED <<tcon, config, op, wire, refs, share, prev, frames, rst>>

\* First result anything but -EOPNOTSUPP, or the parse failed: "out:".
PosixQueryPathInfoOut ==
  /\ Returned("smb311_posix_query_path_info", "first")
  /\ op.rc = -EOPNOTSUPP => PosixParses(op.rc, call.err)
  /\ \E prc \in ParseErrs :
        call' = [call EXCEPT
                   !.epc = "done",
                   !.rc = IF op.rc = -EOPNOTSUPP THEN prc ELSE op.rc,
                   !.parse = IF op.rc = -EOPNOTSUPP THEN "failed" ELSE @,
                   !.rcs = Append(@, op.rc)]
  /\ heap' = free_rsp_bufs(heap, call.err)
  /\ UNCHANGED <<tcon, config, op, wire, refs, share, prev, frames, rst>>

PosixQueryPathInfoAfterRetry ==
  /\ Returned("smb311_posix_query_path_info", "retry")
  /\ call' = [call EXCEPT !.epc = "done", !.rc = op.rc, !.rcs = Append(@, op.rc)]
  /\ heap' = free_rsp_bufs(heap, call.err)
  /\ UNCHANGED <<tcon, config, op, wire, refs, share, prev, frames, rst>>


\* ------------------------------------------------------------------------
\* The other public entry points
\* ------------------------------------------------------------------------
\* Entry points that return smb2_compound_op's result as it is.
PlainEntries == {"smb2_mkdir", "smb2_rmdir", "smb2_unlink", "smb2_rename_path",
                 "smb2_create_hardlink", "smb2_set_path_size"}

Mkdir ==
  /\ Idle
  /\ \E mnt \in {AnyMnt} :
        LET o == StartOp("SMB2_OP_MKDIR", "NULL", FALSE, FALSE,
                         "FILE_WRITE_ATTRIBUTES", "FILE_CREATE",
                         {"CREATE_NOT_FILE"}, "mode") IN
          /\ op' = o
          /\ call' = Invoke(Begin("smb2_mkdir", FALSE, mnt), o)
  /\ UNCHANGED <<tcon, config, heap, wire, refs, share, prev, frames, rst>>

\* The FILE_BASIC_INFO block is zeroed and given the inode's attributes
\* with ATTR_READONLY added: never the all-zero block. It is passed as ptr.
MkdirSetinfo ==
  /\ Idle
  /\ \E mnt \in {AnyMnt}, cfile \in Cfiles, data \in AttrVals :
        LET o == [StartOp("SMB2_OP_SET_INFO", cfile, FALSE, FALSE,
                          "FILE_WRITE_ATTRIBUTES", "FILE_CREATE",
                          {"CREATE_NOT_FILE"}, "ACL_NO_MODE")
                    EXCEPT !.ptr = data] IN
          /\ op' = o
          /\ call' = Invoke(Begin("smb2_mkdir_setinfo", FALSE, mnt), o)
          /\ refs' = Lookup(refs, cfile)
  /\ UNCHANGED <<tcon, config, heap, wire, share, prev, frames, rst>>

\* smb2_mkdir_setinfo returns nothing; the inode's attributes are updated
\* only when the operation succeeded.
MkdirSetinfoReturn ==
  /\ Returned("smb2_mkdir_setinfo", "first")
  /\ call' = [call EXCEPT !.epc = "done", !.attrs_updated = (op.rc = 0),
                          !.rcs = Append(@, op.rc)]
  /\ UNCHANGED <<tcon, config, op, heap, wire, refs, share, prev, frames, rst>>

Rmdir ==
  /\ Idle
  /\ \E mnt \in {AnyMnt} :
        LET o == StartOp("SMB2_OP_RMDIR", "NULL", FALSE, FALSE, "DELETE",
                         "FILE_OPEN", {"CREATE_NOT_FILE"}, "ACL_NO_MODE") IN
          /\ op' = o
          /\ call' = Invoke(Begin("smb2_rmdir", FALSE, mnt), o)
  /\ UNCHANGED <<tcon, config, heap, wire, refs, share, prev, frames, rst>>

Unlink ==
  /\ Idle
  /\ \E mnt \in {AnyMnt} :
        LET o == StartOp("SMB2_OP_DELETE", "NULL", FALSE, FALSE, "DELETE",
                         "FILE_OPEN", {"CREATE_DELETE_ON_CLOSE", "OPEN_REPARSE_POINT"},
                         "ACL_NO_MODE") IN
          /\ op' = o
          /\ call' = Invoke(Begin("smb2_unlink", FALSE, mnt), o)
  /\ UNCHANGED <<tcon, config, heap, wire, refs, share, prev, frames, rst>>

\* Variant of smb2_set_path_attr that opens with FILE_CREATE.
SetPathAttrCreates(entry, mnt, conv_ok, access, command, cfile) ==
  IF conv_ok
  THEN LET o == StartOp(command, cfile, FALSE, FALSE, access, "FILE_CREATE", {},
                        "ACL_NO_MODE")
       IN [op |-> o, call |-> Invoke(Begin(entry, FALSE, mnt), o)]
  ELSE [op |-> OpIdle,
        call |-> [Begin(entry, FALSE, mnt) EXCEPT !.epc = "done", !.rc = -ENOMEM]]

\* smb2_set_path_attr: the target name is converted first; when that fails
\* smb2_compound_op is not called.
SetPathAttr(entry, mnt, conv_ok, access, command, cfile) ==
  IF conv_ok
  THEN LET o == StartOp(command, cfile, FALSE, FALSE, access, "FILE_OPEN", {},
                        "ACL_NO_MODE")
       IN [op |-> o, call |-> Invoke(Begin(entry, FALSE, mnt), o)]
  ELSE [op |-> OpIdle,
        call |-> [Begin(entry, FALSE, mnt) EXCEPT !.epc = "done", !.rc = -ENOMEM]]

RenamePath ==
  /\ Idle
  /\ \E mnt \in {AnyMnt}, cfile \in Cfiles, conv_ok \in BOOLEAN :
        LET r == SetPathAttr("smb2_rename_path", mnt, conv_ok, "DELETE",
                             "SMB2_OP_RENAME", cfile) IN
          /\ op' = r.op
          /\ call' = r.call
          /\ refs' = Lookup(refs, cfile)
  /\ UNCHANGED <<tcon, config, heap, wire, share, prev, frames, rst>>

CreateHardlink ==
  /\ Idle
  /\ \E mnt \in {AnyMnt}, conv_ok \in BOOLEAN :
        LET r == SetPathAttr("smb2_create_hardlink", mnt, conv_ok,
                             "FILE_READ_ATTRIBUTES", "SMB2_OP_HARDLINK", "NULL") IN
          /\ op' = r.op
          /\ call' = r.call
  /\ UNCHANGED <<tcon, config, heap, wire, refs, share, prev, frames, rst>>

SetPathSize ==
  /\ Idle
  /\ \E mnt \in {AnyMnt}, cfile \in Cfiles :
        LET o == StartOp("SMB2_OP_SET_EOF", cfile, FALSE, FALSE, "FILE_WRITE_DATA",
                         "FILE_OPEN", {}, "ACL_NO_MODE") IN
          /\ op' = o
          /\ call' = Invoke(Begin("smb2_set_path_size", FALSE, mnt), o)
          /\ refs' = Lookup(refs, cfile)
  /\ UNCHANGED <<tcon, config, heap, wire, share, prev, frames, rst>>

PlainReturn ==
  /\ call.entry \in PlainEntries /\ call.epc = "first" /\ op.pc = "returned"
  /\ call' = [call EXCEPT !.epc = "done", !.rc = op.rc, !.rcs = Append(@, op.rc)]
  /\ UNCHANGED <<tcon, config, op, heap, wire, refs, share, prev, frames, rst>>

\* smb2_set_file_info with an all-zero block (buf = 0), or with
\* cifs_sb_tlink failing: returns before any handle lookup.
SetFileInfoEarly ==
  /\ Idle
  /\ \E mnt \in {AnyMnt}, buf \in {0} \cup AttrVals, tlink_err \in {-ENOMEM} :
        call' = [Begin("smb2_set_file_info", share.root, mnt) EXCEPT
                   !.epc = "done", !.buf = buf,
                   !.rc = IF buf = 0 THEN 0 ELSE tlink_err]
  /\ UNCHANGED <<tcon, config, op, heap, wire, refs, share, prev, frames, rst>>

SetFileInfo ==
  /\ Idle
  /\ \E mnt \in {AnyMnt}, cfile \in Cfiles, buf \in AttrVals :
        LET o == [StartOp("SMB2_OP_SET_INFO", cfile, FALSE, FALSE,
                          "FILE_WRITE_ATTRIBUTES", "FILE_OPEN", {}, "ACL_NO_MODE")
                    EXCEPT !.ptr = buf] IN
          /\ op' = o
          /\ call' = Invoke([Begin("smb2_set_file_info", share.root, mnt)
                                EXCEPT !.buf = buf], o)
          /\ refs' = [Lookup(refs, cfile) EXCEPT !.tlink_get = @ + 1]
  /\ UNCHANGED <<tcon, config, heap, wire, share, prev, frames, rst>>

\* Variant of the return below that keeps the connection link.
SetFileInfoReturnKeepsLink ==
  /\ Returned("smb2_set_file_info", "first")
  /\ call' = [call EXCEPT !.epc = "done", !.rc = op.rc, !.rcs = Append(@, op.rc)]
  /\ UNCHANGED <<tcon, config, op, heap, wire, refs, share, prev, frames, rst>>

SetFileInfoReturn ==
  /\ Returned("smb2_set_file_info", "first")
  /\ call' = [call EXCEPT !.epc = "done", !.rc = op.rc, !.rcs = Append(@, op.rc)]
  /\ refs' = [refs EXCEPT !.tlink_put = @ + 1]
  /\ UNCHANGED <<tcon, config, op, heap, wire, share, prev, frames, rst>>

\* ------------------------------------------------------------------------
\* smb2_compound_op called with arbitrary arguments: any command, with or
\* without a handle, with either diagnostics output supplied or not. A
\* caller that supplied both outputs releases what it was handed.
\* ------------------------------------------------------------------------
CompoundOp ==
  /\ Idle
  /\ \E mnt \in {AnyMnt}, command \in Commands, cfile \in Cfiles,
        err_iov \in BOOLEAN, err_buftype \in BOOLEAN :
        LET o == StartOp(command, cfile, err_iov, err_buftype,
                         "FILE_READ_ATTRIBUTES", "FILE_OPEN", {}, "ACL_NO_MODE") IN
          /\ op' = o
          /\ call' = Invoke(Begin("smb2_compound_op", FALSE, mnt), o)
          /\ refs' = Lookup(refs, cfile)
  /\ UNCHANGED <<tcon, config, heap, wire, share, prev, frames, rst>>

CompoundOpReturn ==
  /\ Returned("smb2_compound_op", "first")
  /\ call' = [call EXCEPT !.epc = "done", !.rc = op.rc, !.rcs = Append(@, op.rc)]
  /\ heap' = free_rsp_bufs(heap, call.err)
  /\ UNCHANGED <<tcon, config, op, wire, refs, share, prev, frames, rst>>

\* One logical call, of any entry point, on a connection and a share in any
\* of the initial states. Calls that follow one another on the same path
\* are the subject of RoundTripSpec below.
Next ==
  \/ OpAlloc \/ OpOpen \/ OpOperate \/ OpClose \/ OpSend
  \/ OpFinished \/ OpInterpret \/ OpRelease
  \/ QueryPathInfoCached \/ QueryPathInfoCachedQuery
  \/ QueryPathInfoCompound \/ QueryPathInfoRetry
  \/ QueryPathInfoOut \/ QueryPathInfoAfterRetry
  \/ PosixQueryPathInfo \/ PosixQueryPathInfoRetry \/ PosixQueryPathInfoOut
  \/ PosixQueryPathInfoAfterRetry
  \/ Mkdir \/ MkdirSetinfo \/ MkdirSetinfoReturn \/ Rmdir \/ Unlink
  \/ RenamePath \/ CreateHardlink \/ SetPathSize \/ PlainReturn
  \/ SetFileInfoEarly \/ SetFileInfo \/ SetFileInfoReturn
  \/ CompoundOp \/ CompoundOpReturn

Spec == Init /\ [][Next]_vars

\* ------------------------------------------------------------------------
\* Sequences of smb2_set_file_info and smb2_query_path_info calls on the
\* same path, each call's result kept for the next one to be compared with
\* ------------------------------------------------------------------------

\* What a finished call leaves on record: its entry point, its result code
\* and, if it succeeded, the attribute block it set or returned.
Outcome(c, o) ==
  [entry |-> c.entry, rc |-> c.rc,
   fi |-> IF c.rc # 0 THEN 0
          ELSE IF c.entry = "smb2_set_file_info" THEN o.ptr
          ELSE c.fi]

\* The logical call is over and the next one starts; the outcome of the
\* finished call is kept.
NextCallRecorded ==
  /\ call.epc = "done"
  /\ prev' = Outcome(call, op)
  /\ call' = CallIdle
  /\ op' = OpIdle
  /\ heap' = <<>>
  /\ wire' = <<>>
  /\ refs' = NoRefs
  /\ UNCHANGED <<tcon, config, share, frames, rst>>

RoundTripNext ==
  \/ OpAlloc \/ OpOpen \/ OpOperate \/ OpClose \/ OpSend
  \/ OpFinished \/ OpInterpret \/ OpRelease
  \/ QueryPathInfoCached \/ QueryPathInfoCachedQuery
  \/ QueryPathInfoCompound \/ QueryPathInfoRetry
  \/ QueryPathInfoOut \/ QueryPathInfoAfterRetry
  \/ SetFileInfoEarly \/ SetFileInfo \/ SetFileInfoReturn
  \/ NextCallRecorded

\* The calls compared are calls on the share root; the encryption flag
\* plays no part in them.
RoundTripInit ==
  /\ Init
  /\ ~tcon.seal
  /\ share.root

RoundTripSpec == RoundTripInit /\ [][RoundTripNext]_vars


\* ------------------------------------------------------------------------
\* Several threads running smb2_compound_op on the same connection. The
\* only thing of the connection the function writes is
\* tcon->need_reconnect, in "finished:", decided by the thread's own result
\* code; a thread is therefore reduced to its position and its result code.
\* ------------------------------------------------------------------------

\* Result codes of a call that goes to "finished:" without reaching the
\* transport: the path conversion, an encoder, or an unknown command.
BuildErrs == {-ENOMEM} \cup EncErrs \cup {-EINVAL}

ConcStart(p) ==
  /\ frames[p].pc = "none"
  /\ frames' = [frames EXCEPT ![p].pc = "build"]
  /\ UNCHANGED <<tcon, config, call, op, heap, wire, refs, share, prev, rst>>

\* From the scratch allocation to the Close step: the allocation fails and
\* the function returns at once, a later step fails and control goes to
\* "finished:", or the request array is complete.
ConcBuild(p) ==
  /\ frames[p].pc = "build"
  /\ \/ frames' = [frames EXCEPT ![p].pc = "none", ![p].rc = 0]
     \/ \E rc \in BuildErrs :
           frames' = [frames EXCEPT ![p].pc = "finished", ![p].rc = rc]
     \/ frames' = [frames EXCEPT ![p].pc = "send"]
  /\ UNCHANGED <<tcon, config, call, op, heap, wire, refs, share, prev, rst>>

ConcSend(p) ==
  /\ frames[p].pc = "send"
  /\ \E rc \in {0} \cup SendErrs :
        frames' = [frames EXCEPT ![p].pc = "finished", ![p].rc = rc]
  /\ UNCHANGED <<tcon, config, call, op, heap, wire, refs, share, prev, rst>>

\* "finished:" to the return: the -EREMCHG test and the store.
ConcFinished(p) ==
  /\ frames[p].pc = "finished"
  /\ tcon' = [tcon EXCEPT !.need_reconnect = NeedReconnect(@, frames[p].rc)]
  /\ frames' = [frames EXCEPT
                  ![p].pc = "none", ![p].rc = 0,
                  ![p].marked = @ \/ (frames[p].rc = -EREMCHG)]
  /\ UNCHANGED <<config, call, op, heap, wire, refs, share, prev, rst>>

ConcurrentNext ==
  \E p \in Procs : ConcStart(p) \/ ConcBuild(p) \/ ConcSend(p) \/ ConcFinished(p)

\* The share's content and the build configuration play no part in these
\* steps; one initial state stands for all.
ConcurrentInit ==
  /\ Init
  /\ ~tcon.seal
  /\ config = [dfs_upcall |-> TRUE]
  /\ share = [root |-> FALSE, fi |-> MaxAttr, snapshot |-> 0]

ConcurrentSpec == ConcurrentInit /\ [][ConcurrentNext]_vars

\* ------------------------------------------------------------------------
\* The k1x reset controller: spacemit_reset_init and the assert / deassert
\* operations it registers. A call is cut at the points where another
\* thread can run: before the lock is taken, and between the register
\* accesses made while it is held.
\* ------------------------------------------------------------------------

\* Contents the registers may hold when the controller is registered.
BootValues ==
  {{}, U32All, {i \in U32All : i % 2 = 0}, {i \in U32All : i % 2 = 1}}

\* Identifiers a caller may pass: every entry of the table, 0, and values
\* from RESET_NUMBER on.
ResetIds == 0..(RESET_NUMBER + 1)

\* The signals whose register is also the register of another signal.
SharedIds ==
  {id \in 1..Len(k1x_reset_signals) :
     \E other \in 1..Len(k1x_reset_signals) :
        other # id /\ RegOf(other) = RegOf(id)}

\* spacemit_reset_init(np); compatible is what of_device_is_compatible
\* answers for np. On a compatible node a register block that cannot be
\* mapped ends the function before reset_controller_register; otherwise the
\* lock and the table are set and the operations become callable. On any
\* other node the mappings are skipped and the function goes on with
\* "reset" never assigned: what it registers is not defined. It may stop
\* there, register the controller with no block mapped, or register through
\* a stray pointer, leaving the controller's lock unset as well.
ResetProbe(compatible) ==
  /\ rst.probe = "none"
  /\ IF compatible
     THEN \/ rst' = [rst EXCEPT !.probe = "failed"]
          \/ \E v \in BootValues :
                rst' = [rst EXCEPT !.probe = "registered", !.mapped = TRUE,
                                   !.lock_set = TRUE, !.boot = v,
                                   !.regs = [r \in ResetRegs |-> v]]
     ELSE \/ rst' = [rst EXCEPT !.probe = "failed"]
          \/ \E v \in BootValues, lock_set \in BOOLEAN :
                rst' = [rst EXCEPT !.probe = "registered", !.mapped = FALSE,
                                   !.lock_set = lock_set, !.boot = v,
                                   !.regs = [r \in ResetRegs |-> v]]
  /\ UNCHANGED <<tcon, config, call, op, heap, wire, refs, share, prev, frames>>

\* spacemit_reset_assert / spacemit_reset_deassert up to the lock of
\* spacemit_reset_update: the range tests return 0 at once.
ResetUpdate(p, ids) ==
  /\ rst.probe = "registered"
  /\ rst.calls[p].pc = "idle"
  /\ \E id \in ids, assert \in BOOLEAN :
        rst' = [rst EXCEPT
                  !.calls[p] =
                     IF ResetSkipped(id)
                       THEN [@ EXCEPT !.pc = "returned", !.id = id,
                                      !.assert = assert, !.ret = 0]
                       ELSE [@ EXCEPT !.pc = "lock", !.id = id,
                                      !.assert = assert]]
  /\ UNCHANGED <<tcon, config, call, op, heap, wire, refs, share, prev, frames>>

\* spin_lock_irqsave without the wait for the holder.
ResetLockNoExclusion(p) ==
  /\ rst.calls[p].pc = "lock"
  /\ rst' = [rst EXCEPT !.lock = p, !.calls[p].pc = "locked"]
  /\ UNCHANGED <<tcon, config, call, op, heap, wire, refs, share, prev, frames>>

\* spin_lock_irqsave(reset->lock, flags): waits for the holder; through
\* a lock field that was never set it excludes nobody.
ResetLock(p) ==
  /\ rst.calls[p].pc = "lock"
  /\ rst.lock_set => rst.lock = 0
  /\ rst' = [rst EXCEPT !.lock = p, !.calls[p].pc = "locked"]
  /\ UNCHANGED <<tcon, config, call, op, heap, wire, refs, share, prev, frames>>

\* spacemit_reset_set: value = spacemit_reset_read(reset, id). With no
\* block mapped the read goes to the bare offset and returns anything.
ResetRead(p) ==
  /\ rst.calls[p].pc = "locked"
  /\ \E value \in IF rst.mapped THEN {rst.regs[RegOf(rst.calls[p].id)]}
                                ELSE BootValues :
        rst' = [rst EXCEPT
                  !.calls[p].pc = "read",
                  !.calls[p].value = value,
                  !.calls[p].reads = @ + 1]
  /\ UNCHANGED <<tcon, config, call, op, heap, wire, refs, share, prev, frames>>

\* spacemit_reset_set: the mask is cleared, the value of the requested
\* state is set, and spacemit_reset_write stores the result. With no block
\* mapped the store goes to the bare offset and reaches no register.
ResetWrite(p) ==
  /\ rst.calls[p].pc = "read"
  /\ LET c == rst.calls[p]
         value == spacemit_reset_set(c.value, c.id, c.assert)
     IN rst' = [rst EXCEPT
                  !.regs[RegOf(c.id)] = IF rst.mapped THEN value ELSE @,
                  !.calls[p].pc = "written",
                  !.calls[p].value = value,
                  !.calls[p].writes = @ + 1]
  /\ UNCHANGED <<tcon, config, call, op, heap, wire, refs, share, prev, frames>>

\* spin_unlock_irqrestore(reset->lock, flags); return 0
ResetUnlock(p) ==
  /\ rst.calls[p].pc = "written"
  /\ rst' = [rst EXCEPT !.lock = 0, !.calls[p].pc = "returned",
                        !.calls[p].ret = 0]
  /\ UNCHANGED <<tcon, config, call, op, heap, wire, refs, share, prev, frames>>

\* One thread calling the operations, with any identifier.
\* spacemit_reset_init is entered through CLK_OF_DECLARE, for the nodes
\* compatible with "spacemit,k1x-reset" and no other.
ResetNext ==
  \/ ResetProbe(TRUE)
  \/ ResetUpdate(1, ResetIds)
  \/ ResetLock(1)
  \/ ResetRead(1)
  \/ ResetWrite(1)
  \/ ResetUnlock(1)

\* The protocol engine plays no part in these steps; one initial state
\* stands for all.
ResetInit ==
  /\ Init
  /\ ~tcon.seal
  /\ config = [dfs_upcall |-> TRUE]
  /\ share = [root |-> FALSE, fi |-> MaxAttr, snapshot |-> 0]

ResetSpec == ResetInit /\ [][ResetNext]_vars

\* Every thread calling the operations, on the signals that share their
\* register with another signal.
ResetSharedNext ==
  \/ ResetProbe(TRUE)
  \/ \E p \in ResetCallers :
        \/ ResetUpdate(p, SharedIds)
        \/ ResetLock(p)
        \/ ResetRead(p)
        \/ ResetWrite(p)
        \/ ResetUnlock(p)

ResetSharedSpec == ResetInit /\ [][ResetSharedNext]_vars

\* ========================================================================
\* Properties
\* ========================================================================

\* The number of operate slots a kind needs, as the data model states it:
\* none for Delete / Mkdir, one for every other kind.
Arity(kind) == IF kind \in {"SMB2_OP_DELETE", "SMB2_OP_MKDIR"} THEN 0 ELSE 1

\* The request type of a kind's own slot.
OwnPayload(kind) ==
  IF kind \in {"SMB2_OP_QUERY_INFO", "SMB2_OP_POSIX_QUERY_INFO"}
  THEN "query_info" ELSE "set_info"

\* The transaction the running smb2_compound_op call handed over.
LastWire == wire[Len(wire)]

HasBuffer(r) == r.buftype # "CIFS_NO_BUFFER"

\* C1: without a caller handle, what reaches the transport is an Open in
\* slot 0, the kind's own slot (none for Delete / Mkdir), then a Close:
\* 2 + arity requests starting at slot 0, every one but the first marked
\* related.
C1_OpenOperateClose ==
  (op.sent /\ op.cfile = "NULL") =>
     /\ op.command \in Kinds
     /\ LastWire.first = 0
     /\ LastWire.count = 2 + Arity(op.command)
     /\ LastWire.reqs[0].payload = "open"
     /\ ~LastWire.reqs[0].related
     /\ Arity(op.command) = 1 => LastWire.reqs[1].payload = OwnPayload(op.command)
     /\ LastWire.reqs[LastWire.count - 1].payload = "close"
     /\ \A i \in 1..(LastWire.count - 1) : LastWire.reqs[i].related
     /\ \A i \in Slots : i >= LastWire.count => LastWire.reqs[i].payload = "none"

\* C1 witness: a Rename without a handle was sent as three requests.
C1_Witness ==
  /\ op.sent /\ op.cfile = "NULL" /\ op.command = "SMB2_OP_RENAME"
  /\ LastWire.count = 3

\* C2: with a caller handle no Open and no Close is ever encoded, and the
\* transport is handed exactly arity requests starting at request slot 1,
\* with the responses stored from response slot 1.
C2_HandleSkipsOpenClose ==
  (op.pc # "none" /\ op.cfile # "NULL") =>
     /\ \A i \in Slots : op.rqst[i].payload \notin {"open", "close"}
     /\ op.rqst[0].rq_iov = "NULL"
     /\ op.sent =>
          /\ LastWire.first = 1
          /\ LastWire.count = Arity(op.command)
          /\ \A i \in Slots :
                LastWire.reqs[i].payload =
                   IF i = 1 /\ Arity(op.command) = 1
                   THEN OwnPayload(op.command) ELSE "none"
          /\ \A i \in Slots :
                HasBuffer(op.rsp[i]) => (i = 1 /\ Arity(op.command) = 1)

\* C2 witness: a SetInfo on a caller handle was sent and answered.
C2_Witness ==
  /\ op.sent /\ op.cfile # "NULL" /\ op.command = "SMB2_OP_SET_INFO"
  /\ LastWire.count = 1 /\ HasBuffer(op.rsp[1])

\* C3: no response buffer is ever released twice, and when a logical call
\* has returned every response buffer the transport handed out during it
\* has been released exactly once.
C3_BuffersReleasedOnce ==
  /\ \A b \in 1..Len(heap) : heap[b] <= 1
  /\ call.epc = "done" => \A b \in 1..Len(heap) : heap[b] = 1

\* C3 witness: a query whose first transaction failed with three buffers
\* handed to the caller and whose retry received three more has returned.
C3_Witness ==
  /\ call.epc = "done" /\ call.entry = "smb2_query_path_info"
  /\ Len(call.rcs) = 2 /\ Len(heap) = 6


QueryEntries == {"smb2_query_path_info", "smb311_posix_query_path_info"}

\* The first transaction of the call was answered "stopped on symlink":
\* smb2_compound_op returned the unsupported-operation code and handed back
\* a response in slot 0 whose header declares the creation command with
\* that status.
FirstAnsweredSymlink ==
  /\ Len(call.rcs) >= 1
  /\ call.rcs[1] = -EOPNOTSUPP
  /\ HasBuffer(call.err[0])
  /\ call.err[0].Command = "SMB2_CREATE"
  /\ call.err[0].Status = "STATUS_STOPPED_ON_SYMLINK"

QueryDone == call.epc = "done" /\ call.entry \in QueryEntries

\* C4 as stated: whenever the first transaction is answered "stopped on
\* symlink" the controller retries exactly once, without diagnostics
\* outputs, and returns the retry's result unchanged.
C4_AsStated ==
  /\ call.entry \in QueryEntries => Len(wire) <= 2
  /\ (QueryDone /\ FirstAnsweredSymlink) =>
        /\ Len(call.ops) = 2
        /\ ~call.ops[2].diag
        /\ call.rc = call.rcs[2]

\* C4 (amended): a query call makes at most two smb2_compound_op calls and
\* issues at most two transactions. When the first transaction is answered
\* "stopped on symlink" and the symlink response is parsed, exactly one
\* retry is made, without diagnostics outputs, and its result is returned
\* unchanged; when the parse fails no retry is made and the parse error is
\* returned.
C4_RetryBound ==
  /\ call.entry \in QueryEntries => (Len(wire) <= 2 /\ Len(call.ops) <= 2)
  /\ (QueryDone /\ FirstAnsweredSymlink /\ call.parse = "ok") =>
        /\ Len(call.ops) = 2
        /\ ~call.ops[2].diag
        /\ call.rc = call.rcs[2]
  /\ (QueryDone /\ FirstAnsweredSymlink /\ call.parse # "ok") =>
        /\ call.parse = "failed"
        /\ Len(call.ops) = 1
        /\ call.rc \in ParseErrs

\* C4 witness: both transactions were answered "stopped on symlink" and
\* the call returned the second answer's code.
C4_Witness ==
  /\ QueryDone /\ FirstAnsweredSymlink /\ Len(wire) = 2
  /\ wire[2].rc = -EOPNOTSUPP /\ call.rc = -EOPNOTSUPP
  /\ op.rsp[0].Status = "STATUS_STOPPED_ON_SYMLINK"

\* The case of C5: smb2_query_path_info on a non-root path, first
\* transaction answered "stopped on symlink", symlink target parsed.
C5_Case ==
  /\ call.epc = "done" /\ call.entry = "smb2_query_path_info" /\ ~call.root
  /\ FirstAnsweredSymlink /\ call.parse = "ok"

\* C5 as stated: on return reparse is true, symlink_target is populated and
\* exactly one further transaction was issued, whose creation options
\* include the reparse-point option.
C5_AsStated ==
  C5_Case =>
     /\ call.reparse
     /\ call.symlink_target # "NULL"
     /\ Len(wire) = 2
     /\ wire[2].reqs[0].payload = "open"
     /\ "OPEN_REPARSE_POINT" \in wire[2].reqs[0].oparms.create_options

\* C5 (amended): on return reparse is true and exactly one further
\* smb2_compound_op call was made, with creation options that include the
\* reparse-point option; it issued at most one further transaction, and
\* every Open that transaction carries has the reparse-point option.
\* symlink_target is populated unless the retry ran on a handle and the
\* copy of the symlink target read from that handle failed, in which case
\* -ENOMEM is returned.
C5_SymlinkRetry ==
  C5_Case =>
     /\ call.reparse
     /\ Len(call.ops) = 2
     /\ "OPEN_REPARSE_POINT" \in call.ops[2].oparms.create_options
     /\ Len(wire) <= 2
     /\ (Len(wire) = 2 /\ wire[2].reqs[0].payload = "open") =>
           "OPEN_REPARSE_POINT" \in wire[2].reqs[0].oparms.create_options
     /\ (call.ops[2].cfile = "NULL" /\ op.sent) =>
           (Len(wire) = 2 /\ wire[2].reqs[0].payload = "open")
     /\ call.symlink_target = "NULL" =>
           (call.ops[2].cfile # "NULL" /\ op.kstrdup = "failed" /\ call.rc = -ENOMEM)

\* C5 witness: the retry was sent with its own Open and succeeded.
C5_Witness ==
  /\ C5_Case /\ Len(wire) = 2 /\ wire[2].reqs[0].payload = "open"
  /\ call.rc = 0 /\ call.symlink_target = "parsed"

\* C6: the empty path with a cached handle whose snapshot is valid: no
\* compound transaction, no single query, result 0, attributes equal to
\* the snapshot.
C6_CachedSnapshot ==
  (call.epc = "done" /\ call.entry = "smb2_query_path_info" /\ call.cfid = "valid") =>
     /\ call.root
     /\ Len(wire) = 0 /\ Len(call.ops) = 0
     /\ call.single_queries = 0
     /\ call.rc = 0
     /\ call.fi = call.snapshot /\ call.fi \in AttrVals

\* C6 witness: such a call returned the second of the snapshot values.
C6_Witness ==
  /\ call.epc = "done" /\ call.entry = "smb2_query_path_info"
  /\ call.cfid = "valid" /\ call.snapshot = MaxAttr

\* C7: once the transport has answered a transaction with -EREMCHG,
\* need_reconnect is true from the "finished" block on, so also when
\* smb2_compound_op returns, whatever the kind, the handle and the
\* diagnostics outputs.
C7_ReconnectOnShareDeleted ==
  (op.sent /\ LastWire.rc = -EREMCHG /\ op.pc \in {"interpret", "release", "returned"})
     => tcon.need_reconnect

\* C7 witness: a SetEndOfFile on a caller handle was answered -EREMCHG.
C7_Witness ==
  /\ op.pc = "returned" /\ op.sent /\ LastWire.rc = -EREMCHG
  /\ op.cfile # "NULL" /\ op.command = "SMB2_OP_SET_EOF" /\ op.rc = -EREMCHG

\* C8 as stated: when a handle was passed, exactly one reference to it has
\* been released when smb2_compound_op returns, on every exit path.
C8_AsStated ==
  (op.pc = "returned" /\ op.cfile # "NULL") => op.cfile_put = 1

\* C8 failing state: a call with a handle returned -ENOMEM from the scratch
\* allocation and the handle's reference was not released.
C8_LeakWitness ==
  /\ op.pc = "returned" /\ op.cfile # "NULL" /\ ~op.vars
  /\ op.rc = -ENOMEM /\ op.cfile_put = 0

\* C9: once the cached root handle was acquired it is released exactly
\* once before smb2_query_path_info returns, and no compound transaction
\* is built in that call.
C9_CachedHandleReleased ==
  /\ refs.cfid_put <= refs.cfid_get
  /\ (call.epc = "done" /\ refs.cfid_get > 0) =>
        /\ call.entry = "smb2_query_path_info"
        /\ refs.cfid_get = 1 /\ refs.cfid_put = 1
        /\ Len(call.ops) = 0 /\ Len(wire) = 0

\* C9 witness: the snapshot was stale and the single query failed.
C9_Witness ==
  /\ call.epc = "done" /\ refs.cfid_get = 1 /\ call.cfid = "stale"
  /\ call.rc = -EIO /\ call.single_queries = 1

\* What C10 says of a returned smb2_compound_op call, given the condition
\* under which the outputs are written.
C10_Outputs(written) ==
  /\ op.err_written <=> written
  /\ written =>
        /\ call.err = op.rsp
        /\ \A i \in Slots : HasBuffer(op.rsp[i]) => heap[op.rsp[i].base] = 0
  /\ ~written =>
        /\ call.err = op.err_in
        /\ \A i \in Slots : HasBuffer(op.rsp[i]) => heap[op.rsp[i].base] = 1

C10_Returned == op.pc = "returned" /\ call.epc # "done"

\* C10 as stated: the outputs are written if and only if the final result
\* is non-zero and both outputs were supplied.
C10_AsStated ==
  C10_Returned => C10_Outputs(op.rc # 0 /\ op.err_iov /\ op.err_buftype)

\* C10 (amended): the outputs are written if and only if the final result
\* is non-zero, both outputs were supplied and the scratch allocation
\* succeeded; then the three response slots and their tags are copied as
\* they are and not released. Otherwise the outputs are left as they were
\* and every response buffer has been released by the function.
C10_DiagnosticsFrame ==
  C10_Returned => C10_Outputs(op.rc # 0 /\ op.err_iov /\ op.err_buftype /\ op.vars)

\* C10 witness: a failed Rename with both outputs supplied handed three
\* buffers to its caller.
C10_Witness ==
  /\ C10_Returned /\ op.command = "SMB2_OP_RENAME" /\ op.err_written
  /\ \A i \in Slots : HasBuffer(call.err[i])


\* A call made through one of the file's entry points (not a direct call of
\* smb2_compound_op with arbitrary arguments).
PublicCall == call.entry \notin {"none", "smb2_compound_op"}

\* The sent transaction contains its own Open step.
OwnsOpen == LastWire.reqs[0].payload = "open"

\* A transaction of an arity-1 kind has been handed to the transport.
SentOperate == op.sent /\ op.command \in Kinds /\ Arity(op.command) = 1

\* C13 as stated: in every transaction the entry points send, the operate
\* slot names the placeholder handle if and only if the transaction owns
\* its Open step, and names the caller's handle when one was supplied.
C13_AsStated ==
  (PublicCall /\ SentOperate) =>
     /\ LastWire.reqs[1].fid = "COMPOUND_FID" <=> OwnsOpen
     /\ op.cfile # "NULL" => LastWire.reqs[1].fid = "cfile"

\* C13 failing state: smb2_set_path_size found a writable handle and the
\* SetEndOfFile request was sent alone, naming the placeholder handle.
C13_PlaceholderWithoutOpen ==
  /\ call.entry = "smb2_set_path_size" /\ SentOperate /\ op.cfile # "NULL"
  /\ ~OwnsOpen /\ LastWire.count = 1
  /\ LastWire.reqs[1].info = "FILE_END_OF_FILE_INFORMATION"
  /\ LastWire.reqs[1].fid = "COMPOUND_FID"

\* C14 as stated: in every transaction the entry points send, the operate
\* slot is marked related and chained to the next request if and only if
\* the transaction owns its Open step; with a caller handle the single
\* request is neither.
C14_AsStated ==
  (PublicCall /\ SentOperate) =>
     /\ (LastWire.reqs[1].related /\ LastWire.reqs[1].next) <=> OwnsOpen
     /\ op.cfile # "NULL" =>
           (~LastWire.reqs[1].related /\ ~LastWire.reqs[1].next)

\* C14 failing state: the only request of a transaction is marked related
\* and chained to a request that does not exist.
C14_RelatedToNothing ==
  /\ PublicCall /\ SentOperate /\ op.cfile # "NULL" /\ LastWire.count = 1
  /\ LastWire.reqs[1].related /\ LastWire.reqs[1].next
  /\ LastWire.reqs[2].payload = "none"


\* The request array of the running call holds an encoded Open / Close.
OpenEncoded == op.rqst[0].payload = "open"

CloseEncoded == \E i \in Slots : op.rqst[i].payload = "close"

\* The request array is complete or abandoned: control is at the transport
\* call or beyond "finished:".
BuildOver == op.pc \in {"send", "finished", "interpret", "release", "returned"}

\* What C15 says of the fusion flag: it is passed to the transport exactly
\* when the sent transaction contains its own Open and its own Close.
FlagIffOpenAndClose ==
  op.sent =>
     ("CIFS_CP_CREATE_CLOSE_OP" \in LastWire.flags <=>
        (OwnsOpen /\ \E i \in Slots : LastWire.reqs[i].payload = "close"))

\* C15 as stated: once the request array is built, the Close slot is
\* populated if and only if the Open was encoded; and the fusion flag is
\* passed if and only if the sent transaction has both.
C15_AsStated ==
  /\ BuildOver => (CloseEncoded <=> OpenEncoded)
  /\ FlagIffOpenAndClose

\* C15 (amended): the Close slot is populated only if the transaction
\* encoded its own Open, and never with a caller handle; whenever a
\* transaction reaches the transport the Close slot is populated if and
\* only if the Open was encoded, and the fusion flag is passed if and only
\* if the transaction has both. An Open without a Close is left behind only
\* when a later step failed, and then nothing is sent.
C15_CloseOnlyWithOpen ==
  /\ CloseEncoded => OpenEncoded
  /\ op.cfile # "NULL" => (~OpenEncoded /\ ~CloseEncoded)
  /\ (op.pc = "send" \/ op.sent) => (CloseEncoded <=> OpenEncoded)
  /\ FlagIffOpenAndClose
  /\ (BuildOver /\ OpenEncoded /\ ~CloseEncoded) => (~op.sent /\ op.rc # 0)

\* C15 witness: a Delete was sent as Open + Close with the fusion flag.
C15_Witness ==
  /\ op.sent /\ op.command = "SMB2_OP_DELETE" /\ OwnsOpen
  /\ LastWire.count = 2 /\ LastWire.reqs[1].payload = "close"
  /\ "CIFS_CP_CREATE_CLOSE_OP" \in LastWire.flags


\* The call made a second smb2_compound_op call (the retry).
Retried == Len(call.ops) = 2

\* The first smb2_compound_op call of the query returned the
\* unsupported-operation code.
FirstUnsupported == Len(call.rcs) >= 1 /\ call.rcs[1] = -EOPNOTSUPP

\* C16 as stated: for both query entry points the retry is issued and
\* reparse is set only on "stopped on symlink", and an
\* unsupported-operation failure without that command and status ends the
\* call without a retry and with reparse false.
C16_AsStated ==
  QueryDone =>
     /\ (Retried \/ call.reparse) => FirstAnsweredSymlink
     /\ (FirstUnsupported /\ ~FirstAnsweredSymlink) => (~Retried /\ ~call.reparse)

\* C16 (amended): the retry always carries the reparse-point option and is
\* issued exactly when reparse is set. smb2_query_path_info retries only on
\* "stopped on symlink" (unsupported-operation, creation command, that
\* status), and returns any other unsupported-operation failure without a
\* retry and with reparse false. smb311_posix_query_path_info retries only
\* when the first call returned the unsupported-operation code, but then
\* also when response slot 0 does not declare "stopped on symlink".
C16_RetryCondition ==
  /\ (call.entry \in QueryEntries /\ Retried) =>
        "OPEN_REPARSE_POINT" \in call.ops[2].oparms.create_options
  /\ QueryDone => (Retried <=> call.reparse)
  /\ (QueryDone /\ call.entry = "smb2_query_path_info") =>
        /\ Retried => FirstAnsweredSymlink
        /\ (FirstUnsupported /\ ~FirstAnsweredSymlink) => (~Retried /\ ~call.reparse)
  /\ (QueryDone /\ call.entry = "smb311_posix_query_path_info") =>
        /\ Retried => FirstUnsupported
        /\ (FirstUnsupported /\ ~FirstAnsweredSymlink) => (Retried /\ call.reparse)

\* C16 witness: smb2_query_path_info got the unsupported-operation code
\* with a slot-0 response that declares "stopped on symlink" under another
\* command, and returned it without a retry.
C16_Witness ==
  /\ QueryDone /\ call.entry = "smb2_query_path_info" /\ FirstUnsupported
  /\ HasBuffer(call.err[0]) /\ call.err[0].Status = "STATUS_STOPPED_ON_SYMLINK"
  /\ call.err[0].Command # "SMB2_CREATE"
  /\ ~Retried /\ ~call.reparse /\ call.rc = -EOPNOTSUPP

\* The case of C17: the posix query's first transaction failed on a
\* symlink and the symlink target could not be extracted.
C17_Case ==
  /\ QueryDone /\ call.entry = "smb311_posix_query_path_info"
  /\ FirstAnsweredSymlink /\ call.parse = "failed"

\* C17 as stated: reparse is still set and the retry still issued.
C17_AsStated == C17_Case => (call.reparse /\ Retried)

\* C17 (amended): when extracting the symlink target fails, the posix
\* query returns the extraction error at once: reparse stays false, no
\* retry is issued and only the first transaction was sent.
C17_ParseFailureEndsCall ==
  C17_Case =>
     /\ ~call.reparse /\ ~Retried
     /\ call.rc \in ParseErrs
     /\ call.symlink_target = "NULL"
     /\ Len(wire) = 1

\* C17 witness: such a call returned -EIO.
C17_Witness == C17_Case /\ call.rc = -EIO /\ Len(wire) = 1


\* smb2_query_path_info returned after a single smb2_compound_op call that
\* failed.
QueryFailedOnce ==
  /\ call.epc = "done" /\ call.entry = "smb2_query_path_info"
  /\ Len(call.ops) = 1 /\ Len(call.rcs) = 1 /\ call.rcs[1] # 0

\* Response slot 0 of the first call declares "object name invalid".
FirstNameInvalid ==
  HasBuffer(call.err[0]) /\ call.err[0].Status = "STATUS_OBJECT_NAME_INVALID"

\* C18: a first failure other than -EREMOTE whose slot-0 response declares
\* "object name invalid" becomes -EREMOTE when DFS support is compiled in
\* (and then -EOPNOTSUPP on a mount with DFS disabled), and is returned
\* unchanged when DFS support is compiled out.
C18_NameInvalidRemap ==
  (QueryFailedOnce /\ call.rcs[1] # -EREMOTE /\ FirstNameInvalid) =>
     call.rc = IF config.dfs_upcall
               THEN (IF call.mnt.no_dfs THEN -EOPNOTSUPP ELSE -EREMOTE)
               ELSE call.rcs[1]

\* C18 witness: "not found" with "object name invalid" was returned as
\* "target has moved".
C18_Witness ==
  /\ QueryFailedOnce /\ call.rcs[1] = -ENOENT /\ FirstNameInvalid
  /\ config.dfs_upcall /\ ~call.mnt.no_dfs /\ call.rc = -EREMOTE

\* The first failure is "target has moved", either as returned by
\* smb2_compound_op or after the "object name invalid" remap.
FirstFailureMoved ==
  \/ call.rcs[1] = -EREMOTE
  \/ (config.dfs_upcall /\ FirstNameInvalid)

\* C19 as stated: when the (possibly remapped) first failure is "target
\* has moved" and DFS support is compiled out or disabled for the mount,
\* the caller receives the unsupported-operation code, also when response
\* slot 0 carries no buffer.
C19_AsStated ==
  (QueryFailedOnce /\ FirstFailureMoved /\ (~config.dfs_upcall \/ call.mnt.no_dfs))
     => call.rc = -EOPNOTSUPP

\* C19 (amended): "target has moved" is replaced by the
\* unsupported-operation code only when DFS support is compiled in, the
\* mount has DFS disabled and response slot 0 carries a buffer; with DFS
\* support compiled out, or with no buffer in response slot 0, the caller
\* receives "target has moved" unchanged.
C19_NoDfsRemap ==
  (QueryFailedOnce /\ FirstFailureMoved) =>
     call.rc = IF config.dfs_upcall /\ call.mnt.no_dfs /\ HasBuffer(call.err[0])
               THEN -EOPNOTSUPP ELSE -EREMOTE

\* C19 witness: -EREMOTE on a mount with DFS disabled, compiled in, with a
\* slot-0 response: the caller got the unsupported-operation code.
C19_Witness ==
  /\ QueryFailedOnce /\ call.rcs[1] = -EREMOTE /\ HasBuffer(call.err[0])
  /\ config.dfs_upcall /\ call.mnt.no_dfs /\ call.rc = -EOPNOTSUPP


\* smb2_compound_op went to "finished:" without calling the transport: a
\* step before compound_send_recv failed.
FailedBeforeSend ==
  op.pc \in {"finished", "interpret", "release", "returned"} /\ op.vars /\ ~op.sent

\* Which step failed, read off the request array: the path conversion left
\* slot 0 untouched; an encoder leaves its slot pointed at its scratch
\* vector with no request built in it.
ConversionFailed == op.cfile = "NULL" /\ op.rqst[0].rq_iov = "NULL"

EncoderFailed == \E i \in Slots : op.rqst[i].rq_iov # "NULL" /\ op.rqst[i].payload = "none"

\* C20: a failure of the path conversion, of an encoder, or an unknown
\* command ends smb2_compound_op without a transport call, with the failing
\* step's error code and with the three response slots empty; a call that
\* reached the transport had every step succeed on a known command.
C20_EncodeFailure ==
  /\ FailedBeforeSend =>
        /\ op.rc # 0
        /\ op.rsp = NoRsps
        /\ ConversionFailed \/ EncoderFailed \/ op.command \notin Kinds
        /\ ConversionFailed => op.rc = -ENOMEM
        /\ EncoderFailed => op.rc \in EncErrs
        /\ (~ConversionFailed /\ ~EncoderFailed) => op.rc = -EINVAL
        /\ op.pc = "returned" =>
              (call.err = IF op.err_iov /\ op.err_buftype THEN NoRsps ELSE op.err_in)
  /\ (op.pc # "none" /\ ~op.sent) => Len(wire) = Len(call.ops) - 1
  /\ op.sent =>
        (op.command \in Kinds /\ ~ConversionFailed /\ ~EncoderFailed)

\* C20 witness: an unknown command without a handle: the Open was encoded,
\* nothing was sent and -EINVAL came back.
C20_Witness ==
  /\ FailedBeforeSend /\ op.pc = "returned" /\ op.command = "INVALID"
  /\ op.cfile = "NULL" /\ op.rqst[0].payload = "open"
  /\ op.rc = -EINVAL /\ Len(wire) = 0


\* smb2_query_path_info has returned success.
QuerySucceeded ==
  call.epc = "done" /\ call.entry = "smb2_query_path_info" /\ call.rc = 0

\* The previous call on the same path was a successful smb2_set_file_info
\* that sent an attribute block.
JustSet == prev.entry = "smb2_set_file_info" /\ prev.rc = 0 /\ prev.fi # 0

\* The previous call on the same path was a successful
\* smb2_query_path_info.
JustQueried == prev.entry = "smb2_query_path_info" /\ prev.rc = 0

\* C11 as stated: a successful smb2_query_path_info that follows a
\* successful smb2_set_file_info on the same path returns the attributes
\* just set, the root path with a valid cached snapshot included.
C11_AsStated == (QuerySucceeded /\ JustSet) => call.fi = prev.fi

\* C11 failing state: the attributes were set on the root path, the server
\* holds them, and the query that follows returns the older snapshot of the
\* cached root handle.
C11_StaleSnapshot ==
  /\ QuerySucceeded /\ JustSet /\ call.root /\ call.cfid = "valid"
  /\ share.fi = prev.fi
  /\ call.fi = share.snapshot /\ call.fi # prev.fi
  /\ Len(wire) = 0

\* C12 as stated, for two consecutive smb2_query_path_info calls on the
\* same path that both succeed, with no call in between: the attribute
\* results are identical whichever route each call takes.
C12_AsStated == (QuerySucceeded /\ JustQueried) => call.fi = prev.fi

\* C12 failing state: the first query was answered from the cached
\* snapshot, the second by the server through a compound transaction, and
\* they disagree although nothing changed in between.
C12_RoutesDisagree ==
  /\ QuerySucceeded /\ JustQueried /\ call.root
  /\ call.cfid = "none" /\ Len(wire) >= 1
  /\ call.fi = share.fi /\ prev.fi = share.snapshot
  /\ call.fi # prev.fi


\* smb2_compound_op has returned after its scratch allocation succeeded.
ReturnedAfterAlloc == op.pc = "returned" /\ op.vars

\* The release routine of each request type.
ReleaseRoutine(payload) ==
  CASE payload = "open" -> "SMB2_open_free"
    [] payload = "query_info" -> "SMB2_query_info_free"
    [] payload = "set_info" -> "SMB2_set_info_free"
    [] payload = "close" -> "SMB2_close_free"
    [] OTHER -> "none"

\* The request type each scratch vector of struct cop_vars is used for.
VectorPayload(rq_iov) ==
  CASE rq_iov = "open_iov" -> "open"
    [] rq_iov = "qi_iov" -> "query_info"
    [] rq_iov = "si_iov" -> "set_info"
    [] rq_iov = "close_iov" -> "close"
    [] OTHER -> "none"

\* A slot whose encoder built a request / a slot whose encoder was called
\* and failed (rq_iov is set before the encoder is called).
Populated(rq) == rq.payload # "none"

EncoderFailedIn(rq) == rq.rq_iov # "NULL" /\ rq.payload = "none"

\* C21 as stated: on every exit after the scratch allocation each populated
\* slot has been released exactly once by the routine of its request type,
\* and no release routine has been applied to an unpopulated slot.
C21_AsStated ==
  /\ \A i \in Slots : Len(op.rqst[i].freed_by) <= 1
  /\ ReturnedAfterAlloc =>
        \A i \in Slots :
           op.rqst[i].freed_by =
              IF Populated(op.rqst[i])
              THEN <<ReleaseRoutine(op.rqst[i].payload)>> ELSE <<>>

\* C21 (amended): on every exit after the scratch allocation each populated
\* slot has been released exactly once by the routine of its request type,
\* and no slot is released twice. The slot whose encoder failed is also
\* handed once to the release routine of the request type it was prepared
\* for, because its rq_iov was set before the encoder was called; a slot no
\* step reached is handed to no release routine.
C21_SlotsReleased ==
  /\ \A i \in Slots : Len(op.rqst[i].freed_by) <= 1
  /\ ReturnedAfterAlloc =>
        \A i \in Slots :
           /\ Populated(op.rqst[i]) =>
                 /\ op.rqst[i].freed_by = <<ReleaseRoutine(op.rqst[i].payload)>>
                 /\ VectorPayload(op.rqst[i].rq_iov) = op.rqst[i].payload
           /\ EncoderFailedIn(op.rqst[i]) =>
                 op.rqst[i].freed_by =
                    <<ReleaseRoutine(VectorPayload(op.rqst[i].rq_iov))>>
           /\ op.rqst[i].rq_iov = "NULL" => op.rqst[i].freed_by = <<>>

\* C21 witness: a Rename without a handle whose Close encoder failed: the
\* Open and the set-info request were released by their routines, and the
\* Close slot, never populated, was handed to SMB2_close_free.
C21_Witness ==
  /\ ReturnedAfterAlloc /\ op.command = "SMB2_OP_RENAME" /\ ~op.sent
  /\ op.rqst[0].freed_by = <<"SMB2_open_free">>
  /\ op.rqst[1].freed_by = <<"SMB2_set_info_free">>
  /\ EncoderFailedIn(op.rqst[2]) /\ op.rqst[2].freed_by = <<"SMB2_close_free">>


\* The post-processing of a query on a caller handle is over and the
\* transaction itself had succeeded.
QueryOnHandleAnswered ==
  /\ op.command \in QueryKinds /\ op.cfile # "NULL"
  /\ op.pc \in {"release", "returned"}
  /\ op.sent /\ LastWire.rc = 0

\* C22 as stated: for a query on a handle that carries a resolved symlink
\* target whose transaction succeeded, a failed allocation of the copy
\* makes smb2_compound_op return -ENOMEM with no attributes extracted, and
\* otherwise the handle's string is copied into the result.
C22_AsStated ==
  (QueryOnHandleAnswered /\ op.cfile = "symlink") =>
     /\ op.kstrdup = "failed" =>
           (op.rc = -ENOMEM /\ op.validate = "not called" /\ call.fi = 0
            /\ call.symlink_target = "NULL")
     /\ op.kstrdup # "failed" => call.symlink_target = "cfile"

\* C22 failing state: the put released the last reference to the handle,
\* the read of its symlink target that follows found released memory
\* cleared, and the call returned success without a symlink target.
C22_TargetLost ==
  /\ QueryOnHandleAnswered /\ op.cfile = "symlink" /\ op.pc = "returned"
  /\ op.cfile_freed /\ op.seen = "NULL" /\ op.kstrdup = "not called"
  /\ op.rc = 0 /\ call.symlink_target = "NULL"


\* The query-info response of the call's last transaction failed the
\* offset / length validation against response slot 1.
ValidationFailed == op.validate = "failed"

\* C23: when the transaction succeeded and the validation of the query-info
\* response failed, the validation error is what smb2_compound_op returns
\* and what the query entry point returns: no attributes are extracted, no
\* further smb2_compound_op call is made, and the code is returned as it is
\* whatever the DFS configuration, the mount flags and response slot 0.
C23_ValidationFailurePropagates ==
  /\ ValidationFailed =>
        (op.sent /\ LastWire.rc = 0 /\ op.rc = -EINVAL /\ call.fi = 0)
  /\ (QueryDone /\ ValidationFailed) =>
        /\ call.rc = -EINVAL
        /\ Len(wire) = Len(call.ops)
        /\ Len(call.ops) = 1 => (~call.reparse /\ call.parse = "not called")

\* C23 witness: smb2_query_path_info without a handle, DFS compiled in and
\* disabled on the mount: the transaction succeeded, the validation failed,
\* the Open response was handed back in slot 0, and -EINVAL was returned.
C23_Witness ==
  /\ QueryDone /\ ValidationFailed /\ call.entry = "smb2_query_path_info"
  /\ op.cfile = "NULL" /\ HasBuffer(call.err[0])
  /\ config.dfs_upcall /\ call.mnt.no_dfs
  /\ Len(call.ops) = 1 /\ call.rc = -EINVAL


\* C24: in smb2_query_path_info the cached root handle is acquired only for
\* the empty path. When it is acquired and its snapshot is not valid,
\* exactly one non-compound query is issued, on the cached handle's
\* identifiers, its result code is returned and no compound operation is
\* built; while that query is outstanding the call holds the cached handle
\* and has released nothing. When the path is not empty or the cached handle is not obtained,
\* the call goes to the compound operation, on a readable handle if the
\* lookup found one, and holds no cached handle reference.
C24_CachedRootShortcut ==
  /\ refs.cfid_get > 0 => (call.entry = "smb2_query_path_info" /\ call.root)
  /\ call.cfid # "none" =>
        (refs.cfid_get = 1 /\ call.epc \in {"cached_query", "done"})
  /\ call.epc = "cached_query" =>
        /\ call.entry = "smb2_query_path_info" /\ call.cfid = "stale"
        /\ refs.cfid_put = 0 /\ call.single = <<>>
        /\ Len(call.ops) = 0 /\ Len(wire) = 0
  /\ call.entry = "smb2_query_path_info" =>
        /\ (call.cfid = "stale" /\ call.epc = "done") =>
              /\ call.single = <<[fid |-> "cfid", rc |-> call.rc]>>
              /\ call.rc = 0 => call.fi = share.fi
              /\ Len(call.ops) = 0 /\ Len(wire) = 0
        /\ call.cfid = "valid" => call.single = <<>>
        /\ call.cfid = "none" =>
              /\ Len(call.ops) >= 1
              /\ call.ops[1].command = "SMB2_OP_QUERY_INFO"
              /\ call.single = <<>>
              /\ refs.cfid_get = 0 /\ refs.cfid_put = 0
              /\ refs.cfile_get =
                    Cardinality({i \in 1..Len(call.ops) : call.ops[i].cfile # "NULL"})

\* C24 witness: the empty path, the cached handle obtained without a valid
\* snapshot, and the single query answered with the server's attributes.
C24_Witness ==
  /\ call.entry = "smb2_query_path_info" /\ call.root /\ call.cfid = "stale"
  /\ call.rc = 0 /\ call.fi = share.fi /\ Len(call.single) = 1


\* Some thread has passed "finished:" with the share-deleted code.
SomeoneSawShareDeleted == \E p \in Procs : frames[p].marked

\* C25: with any number of smb2_compound_op calls interleaved on one
\* connection, no step of any of them takes need_reconnect from true to
\* false, and after every step the flag is true if some call has passed
\* "finished:" with -EREMCHG, however many calls did so.
C25_ReconnectSticky ==
  [][/\ tcon.need_reconnect => tcon'.need_reconnect
     /\ SomeoneSawShareDeleted' => tcon'.need_reconnect]_vars

\* C25 witness: two threads have each set the flag and a third, whose
\* transaction succeeded, is about to pass "finished:".
C25_Witness ==
  /\ frames[1].marked /\ frames[2].marked /\ tcon.need_reconnect
  /\ frames[3].pc = "finished" /\ frames[3].rc = 0


\* The (access right, create disposition, create options) triple of a
\* logged smb2_compound_op call.
Triple(c) == <<c.oparms.desired_access, c.oparms.disposition, c.oparms.create_options>>

\* The triple each entry point passes on its n-th smb2_compound_op call.
EntryTriple(entry, n) ==
  CASE entry \in QueryEntries ->
         <<"FILE_READ_ATTRIBUTES", "FILE_OPEN",
           IF n = 2 THEN {"OPEN_REPARSE_POINT"} ELSE {}>>
    [] entry \in {"smb2_mkdir", "smb2_mkdir_setinfo"} ->
         <<"FILE_WRITE_ATTRIBUTES", "FILE_CREATE", {"CREATE_NOT_FILE"}>>
    [] entry = "smb2_rmdir" -> <<"DELETE", "FILE_OPEN", {"CREATE_NOT_FILE"}>>
    [] entry = "smb2_unlink" ->
         <<"DELETE", "FILE_OPEN", {"CREATE_DELETE_ON_CLOSE", "OPEN_REPARSE_POINT"}>>
    [] entry = "smb2_rename_path" -> <<"DELETE", "FILE_OPEN", {}>>
    [] entry = "smb2_create_hardlink" -> <<"FILE_READ_ATTRIBUTES", "FILE_OPEN", {}>>
    [] entry = "smb2_set_path_size" -> <<"FILE_WRITE_DATA", "FILE_OPEN", {}>>
    [] entry = "smb2_set_file_info" -> <<"FILE_WRITE_ATTRIBUTES", "FILE_OPEN", {}>>
    [] OTHER -> <<"none", "none", {}>>

\* The entry point whose first call is taken as the reference for each
\* kind.
KindEntry(kind) ==
  CASE kind = "SMB2_OP_QUERY_INFO" -> "smb2_query_path_info"
    [] kind = "SMB2_OP_POSIX_QUERY_INFO" -> "smb311_posix_query_path_info"
    [] kind = "SMB2_OP_DELETE" -> "smb2_unlink"
    [] kind = "SMB2_OP_MKDIR" -> "smb2_mkdir"
    [] kind = "SMB2_OP_RMDIR" -> "smb2_rmdir"
    [] kind = "SMB2_OP_SET_EOF" -> "smb2_set_path_size"
    [] kind = "SMB2_OP_SET_INFO" -> "smb2_set_file_info"
    [] kind = "SMB2_OP_RENAME" -> "smb2_rename_path"
    [] kind = "SMB2_OP_HARDLINK" -> "smb2_create_hardlink"
    [] OTHER -> "none"

KindTriple(kind) == EntryTriple(KindEntry(kind), 1)

\* C26 as stated: every smb2_compound_op call an entry point makes for a
\* kind carries that kind's one triple.
C26_AsStated ==
  PublicCall =>
     \A i \in 1..Len(call.ops) : Triple(call.ops[i]) = KindTriple(call.ops[i].command)

\* C26 (amended): the triple is fixed per entry point, not per kind. Each
\* entry point always passes the same access right and disposition, and the
\* same options except that the retry of the two query entry points adds
\* the reparse-point option. The access right alone is the same for every
\* call of a kind. SetInfo is issued with FILE_CREATE and CREATE_NOT_FILE by
\* smb2_mkdir_setinfo and with FILE_OPEN and no option by
\* smb2_set_file_info.
C26_TriplePerEntryPoint ==
  PublicCall =>
     \A i \in 1..Len(call.ops) :
        /\ Triple(call.ops[i]) = EntryTriple(call.entry, i)
        /\ Triple(call.ops[i])[1] = KindTriple(call.ops[i].command)[1]

\* C26 witness: smb2_mkdir_setinfo without a handle sent an Open with
\* FILE_CREATE and CREATE_NOT_FILE in front of its SetInfo request.
C26_Witness ==
  /\ call.entry = "smb2_mkdir_setinfo" /\ op.sent /\ OwnsOpen
  /\ LastWire.reqs[1].info = "FILE_BASIC_INFORMATION"
  /\ LastWire.reqs[0].oparms.disposition = "FILE_CREATE"
  /\ LastWire.reqs[0].oparms.create_options = {"CREATE_NOT_FILE"}
  /\ Triple(call.ops[1]) # KindTriple("SMB2_OP_SET_INFO")


\* C27 as stated: smb2_compound_op reads no field of the caller's handle
\* after it has released its reference to the handle.
C27_AsStated == ~op.cfile_read_after_put

\* C27 failing state: a query on a handle succeeded; the put released the
\* last reference and freed the handle; the symlink-target test that
\* follows read released memory and what it found was copied into the
\* result.
C27_ReadAfterPut ==
  /\ op.pc = "returned" /\ op.command = "SMB2_OP_QUERY_INFO" /\ op.cfile = "plain"
  /\ op.cfile_put = 1 /\ op.cfile_freed /\ op.cfile_read_after_put
  /\ op.seen = "garbage" /\ call.symlink_target = "garbage" /\ op.rc = 0


\* C28 as stated: when smb2_rename_path has returned, the reference its
\* lookup took on a writable handle has been released exactly once.
C28_AsStated ==
  /\ refs.cfile_put <= refs.cfile_get
  /\ (call.entry = "smb2_rename_path" /\ call.epc = "done" /\ refs.cfile_get = 1)
        => refs.cfile_put = 1

\* C28 failing state: the lookup found a handle, the conversion of the
\* target name failed, smb2_compound_op was never called, and the
\* reference is still held when -ENOMEM is returned.
C28_LeakOnConversion ==
  /\ call.entry = "smb2_rename_path" /\ call.epc = "done"
  /\ refs.cfile_get = 1 /\ refs.cfile_put = 0
  /\ Len(call.ops) = 0 /\ call.rc = -ENOMEM

\* The query's first smb2_compound_op call ran on a handle, reached the
\* transport and failed.
FirstFailedOnHandle ==
  /\ QueryDone /\ Len(call.ops) >= 1 /\ call.ops[1].cfile # "NULL"
  /\ call.rcs[1] # 0
  /\ Len(wire) >= 1 /\ wire[1].first = 1
  /\ Len(call.ops) = 1 \/ call.rcs[1] = -EOPNOTSUPP

\* C29: when the first transaction of a query was sent on a caller handle
\* and the call failed, response slot 0 is empty. smb2_query_path_info then
\* returns the failure unchanged, with no retry, no parse, reparse false
\* and no DFS remapping. smb311_posix_query_path_info does the same for
\* every code but the unsupported-operation one, on which it sets reparse
\* and retries once without parsing anything.
C29_FailureOnHandle ==
  FirstFailedOnHandle =>
     /\ ~HasBuffer(call.err[0])
     /\ call.parse = "not called"
     /\ (call.entry = "smb2_query_path_info" \/ call.rcs[1] # -EOPNOTSUPP) =>
           (call.rc = call.rcs[1] /\ ~Retried /\ ~call.reparse /\ Len(wire) = 1)
     /\ (call.entry = "smb311_posix_query_path_info" /\ call.rcs[1] = -EOPNOTSUPP) =>
           (Retried /\ call.reparse /\ Len(call.rcs) = 2 /\ call.rc = call.rcs[2]
            /\ "OPEN_REPARSE_POINT" \in call.ops[2].oparms.create_options)

\* C29 witness: smb2_query_path_info on a handle, on a mount with DFS
\* disabled and DFS support compiled in, answered -EREMOTE with a response
\* in slot 1: -EREMOTE is returned as it is.
C29_Witness ==
  /\ FirstFailedOnHandle /\ call.entry = "smb2_query_path_info"
  /\ config.dfs_upcall /\ call.mnt.no_dfs
  /\ call.rcs[1] = -EREMOTE /\ HasBuffer(call.err[1]) /\ call.rc = -EREMOTE

\* smb2_set_file_info has returned.
SetFileInfoDone == call.entry = "smb2_set_file_info" /\ call.epc = "done"

\* What C30 says of the all-zero block: 0 is returned, no handle was looked
\* up, no connection link acquired and nothing built or sent.
AllZeroIsNoOp ==
  (SetFileInfoDone /\ call.buf = 0) =>
     /\ call.rc = 0
     /\ refs.cfile_get = 0 /\ refs.tlink_get = 0 /\ refs.tlink_put = 0
     /\ Len(call.ops) = 0 /\ Len(wire) = 0

\* The one SetInfo compound operation of a call, with the link released
\* once.
OneSetInfoOp ==
  /\ Len(call.ops) = 1 /\ call.ops[1].command = "SMB2_OP_SET_INFO"
  /\ Len(wire) <= 1
  /\ call.rc = call.rcs[1]
  /\ refs.tlink_get = 1 /\ refs.tlink_put = 1

\* C30 as stated: the all-zero block is a no-op, and with any non-zero
\* field exactly one SetInfo compound operation is issued and the
\* connection link released exactly once.
C30_AsStated ==
  /\ AllZeroIsNoOp
  /\ (SetFileInfoDone /\ call.buf # 0) => OneSetInfoOp

\* C30 (amended): the all-zero block is a no-op. With any non-zero field
\* the connection link is acquired first: when that fails its error is
\* returned, no handle is looked up, nothing is built or sent and there is
\* no link to release; when it succeeds exactly one SetInfo compound
\* operation is issued, its result returned, and the link released exactly
\* once. The link is never released more often than acquired.
C30_SetFileInfo ==
  /\ refs.tlink_put <= refs.tlink_get
  /\ AllZeroIsNoOp
  /\ (SetFileInfoDone /\ call.buf # 0) =>
        IF refs.tlink_get = 0
        THEN /\ call.rc # 0
             /\ refs.cfile_get = 0 /\ refs.tlink_put = 0
             /\ Len(call.ops) = 0 /\ Len(wire) = 0
        ELSE OneSetInfoOp

\* C30 witness: a block with a non-zero field and no connection link to be
\* had: the error is returned and nothing was issued.
C30_Witness ==
  /\ SetFileInfoDone /\ call.buf = MaxAttr
  /\ refs.tlink_get = 0 /\ call.rc = -ENOMEM /\ Len(call.ops) = 0


\* ------------------------------------------------------------------------
\* The reset controller's operations
\* ------------------------------------------------------------------------

\* The call of thread p has returned.
ResetReturned(p) == rst.calls[p].pc = "returned"

\* The value the table gives signal id for the requested state.
ResetVal(id, assert) ==
  IF assert THEN k1x_reset_signals[id].assert_val
            ELSE k1x_reset_signals[id].deassert_val

\* C31: when spacemit_reset_assert or spacemit_reset_deassert, called alone,
\* returns, it has returned 0 and
\*  - for an identifier of the table other than RESET_TWSI8, the signal's
\*    register holds its former bits outside the signal's mask and the
\*    signal's assert (resp. deassert) value inside it, and no other
\*    register has changed;
\*  - for RESET_TWSI8 and for an identifier outside the table, no register
\*    was read or written, and none has changed.
C31_MaskedUpdate ==
  ResetReturned(1) =>
    LET c == rst.calls[1]
        mask == k1x_reset_signals[c.id].mask
    IN /\ c.ret = 0
       /\ IF ResetSkipped(c.id)
            THEN /\ c.reads = 0
                 /\ c.writes = 0
                 /\ \A r \in ResetRegs : rst.regs[r] = rst.boot
            ELSE /\ BitAnd(rst.regs[RegOf(c.id)], BitNot(mask))
                      = BitAnd(rst.boot, BitNot(mask))
                 /\ BitAnd(rst.regs[RegOf(c.id)], mask)
                      = ResetVal(c.id, c.assert)
                 /\ \A r \in ResetRegs \ {RegOf(c.id)} :
                       rst.regs[r] = rst.boot

\* RESET_PWM0 asserted on a register of all ones: bit 0 was cleared, bit 2
\* is set, the thirty other bits are still ones.
C31_Witness ==
  /\ ResetReturned(1)
  /\ rst.calls[1].id = ResetId("RESET_PWM0")
  /\ rst.calls[1].assert
  /\ rst.boot = U32All
  /\ rst.regs[RegOf(ResetId("RESET_PWM0"))] = U32All \ {0}
  /\ rst.calls[1].reads = 1 /\ rst.calls[1].writes = 1

\* Thread p is between spin_lock_irqsave and spin_unlock_irqrestore.
ResetInLock(p) == rst.calls[p].pc \in {"locked", "read", "written"}

\* Both calls have returned, and they were for two different signals of one
\* register.
ResetSharedDone ==
  /\ ResetReturned(1) /\ ResetReturned(2)
  /\ rst.calls[1].id # rst.calls[2].id
  /\ RegOf(rst.calls[1].id) = RegOf(rst.calls[2].id)

\* C32: assert / deassert calls running concurrently on two different
\* signals of one register lose no update: a thread between the read and
\* the write of the register holds the controller lock and no other thread
\* is there, and once both calls have returned, in whatever order their
\* steps ran, the bits of each signal's mask hold the value its call wrote.
C32_NoLostUpdate ==
  /\ \A p \in ResetCallers :
        ResetInLock(p) =>
          /\ rst.lock = p
          /\ \A q \in ResetCallers \ {p} : ~ResetInLock(q)
  /\ ResetSharedDone =>
       \A p \in ResetCallers :
          LET c == rst.calls[p]
          IN BitAnd(rst.regs[RegOf(c.id)], k1x_reset_signals[c.id].mask)
               = ResetVal(c.id, c.assert)

\* RESET_CSI and RESET_CCIC2_PHY deasserted concurrently on a register of
\* zeros: bits 1 and 2 are both set.
C32_Witness ==
  /\ ResetSharedDone
  /\ rst.boot = {}
  /\ rst.calls[1].id = ResetId("RESET_CSI") /\ ~rst.calls[1].assert
  /\ rst.calls[2].id = ResetId("RESET_CCIC2_PHY") /\ ~rst.calls[2].assert
  /\ rst.regs[RegOf(ResetId("RESET_CSI"))] = {1, 2}

====
